---- MODULE Spec2Model ----
(***************************************************************************)
(* Verification model of the style-agent recommendation core:              *)
(*   - the knowledge tables and fingerprint matchers (fashion_knowledge/)   *)
(*   - the four rule-based remark passes (recommendation_agent.py,          *)
(*     grooming_agent.py)                                                   *)
(*   - the recommendation aggregator with its optional enrichment call      *)
(*   - onboarding: building, refreshing and persisting the user profile     *)
(*     (profile_builder.py, style_agent.run_onboarding).                    *)
(* Python strings are TLA+ strings; str.lower/strip/replace/title and the   *)
(* `in` substring test are computed character by character.  The em dash    *)
(* of the source's message texts is written "-" here.                      *)
(***************************************************************************)
EXTENDS Integers, Sequences, FiniteSets, TLC

VARIABLES
    pc,                \* position of the analysis pipeline
    user_profile,      \* UserProfile handed to the core
    occasion,          \* target occasion string
    outfit_breakdown,  \* OutfitBreakdown produced by the vision collaborator
    grooming_profile,  \* GroomingProfile produced by generate_grooming_profile
    rule_remarks,      \* the four rule-based remark lists of the current analysis
    api_response,      \* what the enrichment collaborator answered
    recommendation,    \* StyleRecommendation returned by generate_recommendation
    use_api,           \* the use_api flag of the generate_recommendation call
    raised,            \* exception that escaped generate_recommendation, or "none"
    lookup,            \* last knowledge-table / matcher call and its outcome
    profile_store,     \* the profile file onboarding persists (DEFAULT_PROFILE_PATH)
    analysis_run,      \* run_analysis: its arguments, locals and AnalysisResult
    history            \* the lines of the history log (history.jsonl)

vars == <<pc, user_profile, occasion, outfit_breakdown, grooming_profile,
          rule_remarks, api_response, recommendation, use_api, raised, lookup,
          profile_store, analysis_run, history>>

None == "None"

\* Optional results (X | None) carry a tag so that they can be told apart
Nothing == [is_none |-> TRUE]

Some(v) == [is_none |-> FALSE, value |-> v]

(***************************************************************************)
(* Python string operations                                                *)
(***************************************************************************)

UpperToLower ==
    [c \in {"A","B","C","D","E","F","G","H","I","J","K","L","M",
            "N","O","P","Q","R","S","T","U","V","W","X","Y","Z"} |->
        CASE c = "A" -> "a" [] c = "B" -> "b" [] c = "C" -> "c" [] c = "D" -> "d"
          [] c = "E" -> "e" [] c = "F" -> "f" [] c = "G" -> "g" [] c = "H" -> "h"
          [] c = "I" -> "i" [] c = "J" -> "j" [] c = "K" -> "k" [] c = "L" -> "l"
          [] c = "M" -> "m" [] c = "N" -> "n" [] c = "O" -> "o" [] c = "P" -> "p"
          [] c = "Q" -> "q" [] c = "R" -> "r" [] c = "S" -> "s" [] c = "T" -> "t"
          [] c = "U" -> "u" [] c = "V" -> "v" [] c = "W" -> "w" [] c = "X" -> "x"
          [] c = "Y" -> "y" [] c = "Z" -> "z"]

LowerChar(c) == IF c \in DOMAIN UpperToLower THEN UpperToLower[c] ELSE c

UpperChar(c) ==
    IF \E u \in DOMAIN UpperToLower : UpperToLower[u] = c
    THEN CHOOSE u \in DOMAIN UpperToLower : UpperToLower[u] = c
    ELSE c

IsLetter(c) == c \in DOMAIN UpperToLower \/ (\E u \in DOMAIN UpperToLower : UpperToLower[u] = c)

CharAt(s, i) == SubSeq(s, i, i)

RECURSIVE LowerFrom(_, _)
LowerFrom(s, i) ==
    IF i > Len(s) THEN "" ELSE LowerChar(CharAt(s, i)) \o LowerFrom(s, i + 1)

\* str.lower()
Lower(s) == LowerFrom(s, 1)

Whitespace == {" ", "\t", "\n"}

RECURSIVE FirstNonSpace(_, _)
FirstNonSpace(s, i) ==
    IF i > Len(s) THEN i
    ELSE IF CharAt(s, i) \in Whitespace THEN FirstNonSpace(s, i + 1) ELSE i

RECURSIVE LastNonSpace(_, _)
LastNonSpace(s, i) ==
    IF i < 1 THEN i
    ELSE IF CharAt(s, i) \in Whitespace THEN LastNonSpace(s, i - 1) ELSE i

\* str.strip()
Strip(s) == SubSeq(s, FirstNonSpace(s, 1), LastNonSpace(s, Len(s)))

RECURSIVE ReplaceFrom(_, _, _, _)
ReplaceFrom(s, i, a, b) ==
    IF i > Len(s) THEN ""
    ELSE (IF CharAt(s, i) = a THEN b ELSE CharAt(s, i)) \o ReplaceFrom(s, i + 1, a, b)

\* str.replace(a, b) for a single-character a
Replace(s, a, b) == ReplaceFrom(s, 1, a, b)

RECURSIVE TitleFrom(_, _)
TitleFrom(s, i) ==
    IF i > Len(s) THEN ""
    ELSE (IF i = 1 \/ ~IsLetter(CharAt(s, i - 1))
          THEN UpperChar(CharAt(s, i))
          ELSE LowerChar(CharAt(s, i))) \o TitleFrom(s, i + 1)

\* str.title()
Title(s) == TitleFrom(s, 1)

\* Python `sub in s` on strings
Contains(sub, s) ==
    \E i \in 1..(Len(s) - Len(sub) + 1) : SubSeq(s, i, i + Len(sub) - 1) = sub

\* list slicing xs[:n]
Take(xs, n) == SubSeq(xs, 1, IF Len(xs) < n THEN Len(xs) ELSE n)

RECURSIVE JoinFrom(_, _, _)
JoinFrom(xs, i, sep) ==
    IF i > Len(xs) THEN ""
    ELSE IF i = Len(xs) THEN xs[i]
    ELSE xs[i] \o sep \o JoinFrom(xs, i + 1, sep)

\* sep.join(xs)
Join(xs, sep) == JoinFrom(xs, 1, sep)

\* a Python (bool, str) result
Pair(ok, reason) == [ok |-> ok, reason |-> reason]

InSeq(x, xs) == \E i \in 1..Len(xs) : xs[i] = x

Range(xs) == {xs[i] : i \in 1..Len(xs)}

(***************************************************************************)
(* models/user_profile.py enums                                            *)
(***************************************************************************)

\* list(FaceShape), in declaration order
FaceShape == <<"oval", "square", "round", "oblong", "heart", "diamond">>

BodyShape == <<"rectangle", "triangle", "inverted_triangle", "oval", "trapezoid">>

SkinUndertone == <<"warm", "cool", "neutral", "deep_warm", "deep_cool", "olive_warm">>

(***************************************************************************)
(* fashion_knowledge/indian_wear.py                                        *)
(***************************************************************************)

INDIAN_COLLAR_KEYS == <<"bandhgala", "nehru", "mandarin", "angrakha">>

INDIAN_COLLAR_FACE_COMPATIBILITY ==
    [c \in Range(INDIAN_COLLAR_KEYS) |->
        CASE c = "bandhgala" -> <<"square", "oval", "oblong">>
          [] c = "nehru"     -> <<"oval", "heart", "diamond">>
          [] c = "mandarin"  -> FaceShape
          [] c = "angrakha"  -> <<"oval", "heart">>]

indian_collar_face_compatible(collar_type, face_shape) ==
    LET ct == Strip(Lower(collar_type)) IN
    IF ct \notin DOMAIN INDIAN_COLLAR_FACE_COMPATIBILITY
    THEN Pair(TRUE, "")
    ELSE IF ~InSeq(face_shape, INDIAN_COLLAR_FACE_COMPATIBILITY[ct])
    THEN LET better == SelectSeq(INDIAN_COLLAR_KEYS,
                           LAMBDA c : InSeq(face_shape, INDIAN_COLLAR_FACE_COMPATIBILITY[c]))
             rec == IF better # <<>>
                    THEN "Better collar choices for " \o face_shape \o " face: "
                             \o Join(better, ", ")
                    ELSE ""
         IN Pair(FALSE, Title(collar_type) \o " collar is not ideal for "
                            \o face_shape \o " face. " \o rec)
    ELSE Pair(TRUE, "")

FABRIC_OCCASION_KEYS ==
    {"wedding_guest_indian", "indian_formal", "business_casual", "smart_casual",
     "indian_casual", "casual", "festival", "ethnic_fusion", "party"}

FABRIC_OCCASION ==
    [o \in FABRIC_OCCASION_KEYS |->
        CASE o \in {"wedding_guest_indian", "indian_formal"} ->
                 <<"chanderi", "silk-cotton blend", "raw silk", "brocade">>
          [] o \in {"business_casual", "smart_casual"} ->
                 <<"cotton-silk blend", "linen-cotton", "structured cotton">>
          [] o \in {"indian_casual", "casual"} ->
                 <<"plain cotton", "block print", "linen">>
          [] o = "festival" ->
                 <<"any - colour and print are more important than fabric at festivals">>
          [] o = "ethnic_fusion" ->
                 <<"cotton-silk blend", "structured cotton", "linen-cotton">>
          [] o = "party" -> <<"silk", "raw silk", "chanderi", "velvet">>]

fabric_appropriate_for_occasion(fabric, occ_in) ==
    LET occ == Replace(Strip(Lower(occ_in)), " ", "_") IN
    IF occ \notin DOMAIN FABRIC_OCCASION
    THEN Pair(TRUE, "")
    ELSE LET appropriate == FABRIC_OCCASION[occ]
             fab == Strip(Lower(fabric))
             is_formal_occasion == occ \in {"wedding_guest_indian", "indian_formal", "party"}
         IN IF Contains("any", appropriate[1])
            THEN Pair(TRUE, "")
            ELSE IF \E i \in 1..Len(appropriate) :
                        Contains(appropriate[i], fab) \/ Contains(fab, appropriate[i])
            THEN Pair(TRUE, "")
            ELSE IF is_formal_occasion /\ Contains("cotton", fab) /\ ~Contains("silk", fab)
            THEN Pair(FALSE, "'" \o fabric \o "' reads two formality levels below what "
                        \o Replace(occ, "_", " ") \o " requires. Upgrade to: "
                        \o Join(Take(appropriate, 2), ", ") \o ".")
            ELSE Pair(FALSE, "'" \o fabric \o "' is not ideal for "
                        \o Replace(occ, "_", " ") \o ". Recommended fabrics: "
                        \o Join(Take(appropriate, 3), ", ") \o ".")

VALID_FUSIONS ==
    << <<"kurta", "tailored trousers">>, <<"kurta", "dark slim jeans">>,
       <<"kurta", "dark jeans">>, <<"bandhgala jacket", "western trousers">>,
       <<"nehru jacket", "shirt">> >>

INVALID_FUSIONS ==
    << <<"sherwani", "jeans">>, <<"ethnic top", "track pants">>,
       <<"ethnic top", "gym bottoms">>, <<"formal kurta", "cargo shorts">>,
       <<"mojaris", "western formal suit">> >>

is_valid_fusion(top_garment, bottom_garment) ==
    LET top == Strip(Lower(top_garment))
        bottom == Strip(Lower(bottom_garment))
    IN IF \E i \in 1..Len(INVALID_FUSIONS) :
              Contains(INVALID_FUSIONS[i][1], top) /\ Contains(INVALID_FUSIONS[i][2], bottom)
       THEN Pair(FALSE, "'" \o top_garment \o "' + '" \o bottom_garment
                   \o "' is an invalid ethnic fusion - this combination undermines both garments.")
       ELSE IF \E i \in 1..Len(VALID_FUSIONS) :
              Contains(VALID_FUSIONS[i][1], top) /\ Contains(VALID_FUSIONS[i][2], bottom)
       THEN Pair(TRUE, "")
       ELSE Pair(TRUE, "")

(***************************************************************************)
(* fashion_knowledge/body_types.py                                         *)
(***************************************************************************)

kurta_length(height, body_shape) ==
    LET h == Strip(Lower(height)) IN
    IF h = "petite"
    THEN "at or just above hip - never lower (shortens the frame further)"
    ELSE IF body_shape = "inverted_triangle"
    THEN "mid-thigh or longer - balances broad shoulders by drawing the eye down"
    ELSE IF h = "tall" THEN "mid-thigh or below"
    ELSE IF body_shape = "rectangle" THEN "hip to mid-thigh"
    ELSE "mid-thigh is the safest choice for most occasions"

kurta_length_recommendation(height, body_shape) == kurta_length(height, body_shape)

(***************************************************************************)
(* fashion_knowledge/western_wear.py                                       *)
(***************************************************************************)

trouser_break(height) ==
    LET h == Strip(Lower(height)) IN
    IF h = "tall"
    THEN "no break or slight break - full break puddles and shortens the leg line"
    ELSE IF h = "petite"
    THEN "no break always - consider ankle-length trousers for maximum leg length"
    ELSE "half break is the safe default for average height"

WESTERN_COLLAR_KEYS ==
    <<"spread collar", "button-down", "band collar", "point collar",
      "cutaway collar", "club collar">>

WESTERN_COLLAR_FACE_COMPATIBILITY ==
    [c \in Range(WESTERN_COLLAR_KEYS) |->
        CASE c = "spread collar"  -> <<"square", "oval", "oblong">>
          [] c = "button-down"    -> <<"oval", "heart", "oblong">>
          [] c = "band collar"    -> <<"oval", "oblong">>
          [] c = "point collar"   -> FaceShape
          [] c = "cutaway collar" -> <<"square", "oval">>
          [] c = "club collar"    -> <<"oval", "heart">>]

COLLAR_AVOID == [c \in {"spread collar"} |-> <<"round">>]

western_collar_face_compatible(collar_type, face_shape) ==
    LET ct == Strip(Lower(collar_type))
        avoid_shapes == IF ct \in DOMAIN COLLAR_AVOID THEN COLLAR_AVOID[ct] ELSE <<>>
    IN IF InSeq(face_shape, avoid_shapes)
       THEN Pair(FALSE, "'" \o collar_type \o "' collar is not recommended for "
                   \o face_shape \o " face - it adds width at the collar which amplifies "
                   \o "the face's roundness. Try button-down or point collar instead.")
       ELSE IF ct \notin DOMAIN WESTERN_COLLAR_FACE_COMPATIBILITY
       THEN Pair(TRUE, "")
       ELSE IF ~InSeq(face_shape, WESTERN_COLLAR_FACE_COMPATIBILITY[ct])
       THEN LET better == SelectSeq(WESTERN_COLLAR_KEYS,
                              LAMBDA c : InSeq(face_shape, WESTERN_COLLAR_FACE_COMPATIBILITY[c])
                                         /\ c # ct)
                rec == IF better # <<>>
                       THEN "Better collars for " \o face_shape \o ": "
                                \o Join(Take(better, 3), ", ")
                       ELSE ""
            IN Pair(FALSE, "'" \o collar_type \o "' is not ideal for "
                               \o face_shape \o " face. " \o rec)
       ELSE Pair(TRUE, "")

weight_order == [w \in {"light", "medium", "heavy"} |->
                    CASE w = "light" -> 1 [] w = "medium" -> 2 [] w = "heavy" -> 3]

fit_order == [f \in {"slim", "fitted", "regular", "relaxed", "oversized"} |->
                 CASE f = "slim" -> 1 [] f = "fitted" -> 1 [] f = "regular" -> 2
                   [] f = "relaxed" -> 3 [] f = "oversized" -> 4]

\* dict.get(key, default)
Get(d, key, default) == IF key \in DOMAIN d THEN d[key] ELSE default

\* a check that stops at the first violation it finds
ValidateLayeringFirstOnly(base_fabric_weight, outer_fabric_weight, base_fit, outer_fit) ==
    IF Get(weight_order, Strip(Lower(outer_fabric_weight)), 2)
           < Get(weight_order, Strip(Lower(base_fabric_weight)), 2)
    THEN <<"Outer layer is lighter than base layer - reverse the order. Heavier fabrics always go on the outside.">>
    ELSE IF Get(fit_order, Strip(Lower(outer_fit)), 2)
                < Get(fit_order, Strip(Lower(base_fit)), 2)
    THEN <<"Outer layer is slimmer than base layer - layering should taper inward. Base layer slimmest, outer layer most relaxed.">>
    ELSE <<>>

validate_layering(base_fabric_weight, outer_fabric_weight, base_fit, outer_fit) ==
    LET base_w  == Get(weight_order, Strip(Lower(base_fabric_weight)), 2)
        outer_w == Get(weight_order, Strip(Lower(outer_fabric_weight)), 2)
        base_f  == Get(fit_order, Strip(Lower(base_fit)), 2)
        outer_f == Get(fit_order, Strip(Lower(outer_fit)), 2)
    IN (IF outer_w < base_w
        THEN <<"Outer layer is lighter than base layer - reverse the order. Heavier fabrics always go on the outside.">>
        ELSE <<>>)
       \o
       (IF outer_f < base_f
        THEN <<"Outer layer is slimmer than base layer - layering should taper inward. Base layer slimmest, outer layer most relaxed.">>
        ELSE <<>>)

TROUSER_SHOE_PAIRS ==
    [f \in {"slim", "tapered", "regular", "wide", "relaxed", "formal tailored"} |->
        CASE f \in {"slim", "tapered"} ->
                 <<"loafers", "derbies", "clean sneakers", "chelsea boots">>
          [] f = "regular" ->
                 <<"loafers", "brogues", "clean sneakers", "oxford", "derby">>
          [] f \in {"wide", "relaxed"} ->
                 <<"chunky sneakers", "chelsea boots", "brogues">>
          [] f = "formal tailored" -> <<"oxford", "derby">>]

TROUSER_SHOE_FORBIDDEN == [f \in {"formal tailored"} |-> <<"loafers", "sneakers">>]

trouser_shoe_appropriate(trouser_fit, shoe_type) ==
    LET fit == Strip(Lower(trouser_fit))
        shoe == Strip(Lower(shoe_type))
        forbidden == Get(TROUSER_SHOE_FORBIDDEN, fit, <<>>)
        recommended == Get(TROUSER_SHOE_PAIRS, fit, <<>>)
    IN IF \E i \in 1..Len(forbidden) : Contains(forbidden[i], shoe)
       THEN Pair(FALSE, "'" \o shoe_type \o "' is not appropriate with " \o trouser_fit
                   \o " trousers. Recommended: " \o Join(Take(recommended, 3), ", ") \o ".")
       ELSE Pair(TRUE, "")

(***************************************************************************)
(* fashion_knowledge/footwear_guide.py tables                               *)
(***************************************************************************)

FOOTWEAR_RULES_KEYS ==
    <<"indian_formal",
      "wedding_guest_indian",
      "indian_casual",
      "western_formal",
      "business_casual",
      "smart_casual",
      "streetwear",
      "party",
      "casual",
      "travel",
      "gym",
      "beach",
      "festival",
      "lounge",
      "ethnic_fusion">>

FOOTWEAR_RULES ==
    [k \in Range(FOOTWEAR_RULES_KEYS) |->
        CASE k = "indian_formal" ->
                 [occasion |-> "indian_formal",
                  allowed |-> <<"mojaris", "juttis", "kolhapuris formal",
                        "leather oxfords plain neutral">>,
                  forbidden |-> <<"sneakers", "sports sandals", "rubber chappals", "sport shoes",
                        "trainers">>,
                  notes |-> "Footwear must speak the same style language as the sherwani or bandhgala."]
          [] k = "wedding_guest_indian" ->
                 [occasion |-> "wedding_guest_indian",
                  allowed |-> <<"mojaris", "juttis", "kolhapuris formal",
                        "leather oxfords plain neutral">>,
                  forbidden |-> <<"sneakers", "sports sandals", "rubber chappals", "sport shoes",
                        "trainers">>,
                  notes |-> "Same as Indian formal - wedding context demands ethnic footwear."]
          [] k = "indian_casual" ->
                 [occasion |-> "indian_casual",
                  allowed |-> <<"kolhapuris", "loafers", "clean white sneakers", "leather sandals">>,
                  forbidden |-> <<"formal black oxfords", "sports shoes">>,
                  notes |-> "Casual but still coordinated - clean white sneakers are fine with an everyday kurta."]
          [] k = "western_formal" ->
                 [occasion |-> "western_formal",
                  allowed |-> <<"oxford", "derby", "monk strap">>,
                  forbidden |-> <<"loafers", "sneakers", "suede shoes", "sport shoes", "chappals">>,
                  notes |-> "Must be black or dark brown, polished. Suede is not formal."]
          [] k = "business_casual" ->
                 [occasion |-> "business_casual",
                  allowed |-> <<"loafers", "clean leather sneakers", "chelsea boots", "derby">>,
                  forbidden |-> <<"sports shoes", "rubber sandals", "flip flops">>,
                  notes |-> "Business casual allows loafers and clean leather sneakers."]
          [] k = "smart_casual" ->
                 [occasion |-> "smart_casual",
                  allowed |-> <<"loafers", "clean leather sneakers", "chelsea boots", "derby", "brogues">>,
                  forbidden |-> <<"sports shoes", "rubber sandals">>,
                  notes |-> ""]
          [] k = "streetwear" ->
                 [occasion |-> "streetwear",
                  allowed |-> <<"sneakers", "chunky trainers", "clean low-tops">>,
                  forbidden |-> <<"formal oxfords", "mojaris", "dress shoes">>,
                  notes |-> "Condition is critical - dirty sneakers undermine the entire look."]
          [] k = "party" ->
                 [occasion |-> "party",
                  allowed |-> <<"loafers", "chelsea boots", "clean leather sneakers", "dress shoes">>,
                  forbidden |-> <<"sports shoes", "rubber sandals", "old worn sneakers">>,
                  notes |-> ""]
          [] k = "casual" ->
                 [occasion |-> "casual",
                  allowed |-> <<"sneakers", "loafers", "sandals", "kolhapuris", "chappals">>,
                  forbidden |-> <<>>,
                  notes |-> "Most footwear works casually - condition still matters."]
          [] k = "travel" ->
                 [occasion |-> "travel",
                  allowed |-> <<"sneakers", "loafers", "comfortable sandals", "chelsea boots">>,
                  forbidden |-> <<"formal dress shoes for long-haul">>,
                  notes |-> ""]
          [] k = "gym" ->
                 [occasion |-> "gym",
                  allowed |-> <<"sport shoes", "trainers", "running shoes">>,
                  forbidden |-> <<"loafers", "dress shoes", "sandals", "mojaris">>,
                  notes |-> ""]
          [] k = "beach" ->
                 [occasion |-> "beach",
                  allowed |-> <<"sandals", "flip flops", "bare feet">>,
                  forbidden |-> <<"dress shoes", "boots", "sneakers for beach">>,
                  notes |-> ""]
          [] k = "festival" ->
                 [occasion |-> "festival",
                  allowed |-> <<"kolhapuris", "juttis", "sneakers", "sandals">>,
                  forbidden |-> <<>>,
                  notes |-> "Festivals are flexible - colour and print matter more."]
          [] k = "lounge" ->
                 [occasion |-> "lounge",
                  allowed |-> <<"slippers", "sandals", "socks and slides", "loafers">>,
                  forbidden |-> <<"formal dress shoes">>,
                  notes |-> ""]
          [] k = "ethnic_fusion" ->
                 [occasion |-> "ethnic_fusion",
                  allowed |-> <<"loafers", "kolhapuris", "clean sneakers", "leather sandals">>,
                  forbidden |-> <<"formal black oxfords", "sports shoes", "rubber chappals">>,
                  notes |-> ""]]

CONDITION_RULES_KEYS ==
    <<"clean",
      "scuffed",
      "dirty",
      "worn out",
      "sole peeling",
      "yellowed sole">>

CONDITION_RULES ==
    [k \in Range(CONDITION_RULES_KEYS) |->
        CASE k = "clean" ->
                 [condition |-> "clean",
                  severity |-> "none",
                  issue |-> "",
                  shoe_care_note |-> ""]
          [] k = "scuffed" ->
                 [condition |-> "scuffed",
                  severity |-> "moderate",
                  issue |-> "Visibly scuffed leather reduces the quality signal of the entire outfit.",
                  shoe_care_note |-> "Polish before next wear, or take to a cobbler this week."]
          [] k = "dirty" ->
                 [condition |-> "dirty",
                  severity |-> "critical",
                  issue |-> "Dirty shoes undermine the entire look regardless of how good the outfit is.",
                  shoe_care_note |-> "Clean thoroughly before wearing again - this is a critical fix."]
          [] k = "worn out" ->
                 [condition |-> "worn out",
                  severity |-> "critical",
                  issue |-> "Worn-out shoes signal a lack of investment in the overall look.",
                  shoe_care_note |-> "Replace this pair - they are past the point of repair."]
          [] k = "sole peeling" ->
                 [condition |-> "sole peeling",
                  severity |-> "critical",
                  issue |-> "Peeling sole is immediately visible and damages the overall impression.",
                  shoe_care_note |-> "Replace immediately - cobbler repair may not be viable at this stage."]
          [] k = "yellowed sole" ->
                 [condition |-> "yellowed sole",
                  severity |-> "moderate",
                  issue |-> "Yellowed sole on sneakers reads as old and unmaintained.",
                  shoe_care_note |-> "Use sole whitener or replace if yellowing is severe."]]

(***************************************************************************)
(* fashion_knowledge/fabric_guide.py table                                  *)
(***************************************************************************)

FABRICS_KEYS ==
    <<"cotton",
      "linen",
      "chanderi",
      "raw silk",
      "silk",
      "brocade",
      "silk-cotton blend",
      "linen-cotton blend",
      "wool",
      "wool blend",
      "denim",
      "cotton poplin",
      "oxford cloth",
      "velvet",
      "jersey">>

FABRICS ==
    [k \in Range(FABRICS_KEYS) |->
        CASE k = "cotton" ->
                 [name |-> "cotton",
                  formality_level |-> 2,
                  weight |-> "light",
                  seasonal_suitability |-> <<"summer", "all-season">>,
                  occasions |-> <<"casual", "indian_casual", "travel", "festival", "lounge">>,
                  care_note |-> "Machine washable. Iron on medium heat.",
                  texture |-> "smooth",
                  drape |-> "medium"]
          [] k = "linen" ->
                 [name |-> "linen",
                  formality_level |-> 2,
                  weight |-> "light",
                  seasonal_suitability |-> <<"summer">>,
                  occasions |-> <<"casual", "indian_casual", "travel", "beach">>,
                  care_note |-> "Hand wash or gentle machine. Wrinkles easily - embrace or steam.",
                  texture |-> "textured",
                  drape |-> "medium"]
          [] k = "chanderi" ->
                 [name |-> "chanderi",
                  formality_level |-> 5,
                  weight |-> "light",
                  seasonal_suitability |-> <<"all-season">>,
                  occasions |-> <<"indian_formal", "wedding_guest_indian", "party">>,
                  care_note |-> "Dry clean recommended. Handle with care - delicate weave.",
                  texture |-> "sheer",
                  drape |-> "fluid"]
          [] k = "raw silk" ->
                 [name |-> "raw silk",
                  formality_level |-> 4,
                  weight |-> "medium",
                  seasonal_suitability |-> <<"all-season">>,
                  occasions |-> <<"indian_formal", "wedding_guest_indian", "party">>,
                  care_note |-> "Dry clean only. Avoid direct sunlight - fades.",
                  texture |-> "textured",
                  drape |-> "medium"]
          [] k = "silk" ->
                 [name |-> "silk",
                  formality_level |-> 5,
                  weight |-> "medium",
                  seasonal_suitability |-> <<"all-season">>,
                  occasions |-> <<"indian_formal", "wedding_guest_indian", "party">>,
                  care_note |-> "Dry clean only. Store away from light.",
                  texture |-> "smooth",
                  drape |-> "fluid"]
          [] k = "brocade" ->
                 [name |-> "brocade",
                  formality_level |-> 5,
                  weight |-> "heavy",
                  seasonal_suitability |-> <<"winter", "all-season">>,
                  occasions |-> <<"indian_formal", "wedding_guest_indian">>,
                  care_note |-> "Dry clean only. Heavy - layer sparingly.",
                  texture |-> "textured",
                  drape |-> "stiff"]
          [] k = "silk-cotton blend" ->
                 [name |-> "silk-cotton blend",
                  formality_level |-> 4,
                  weight |-> "medium",
                  seasonal_suitability |-> <<"all-season">>,
                  occasions |-> <<"indian_formal", "wedding_guest_indian", "business_casual">>,
                  care_note |-> "Dry clean or gentle hand wash in cold water.",
                  texture |-> "smooth",
                  drape |-> "medium"]
          [] k = "linen-cotton blend" ->
                 [name |-> "linen-cotton blend",
                  formality_level |-> 3,
                  weight |-> "light",
                  seasonal_suitability |-> <<"summer", "all-season">>,
                  occasions |-> <<"business_casual", "smart_casual", "indian_casual">>,
                  care_note |-> "Machine washable. Light iron.",
                  texture |-> "textured",
                  drape |-> "medium"]
          [] k = "wool" ->
                 [name |-> "wool",
                  formality_level |-> 5,
                  weight |-> "heavy",
                  seasonal_suitability |-> <<"winter">>,
                  occasions |-> <<"western_formal", "business_casual", "smart_casual">>,
                  care_note |-> "Dry clean or hand wash cold. Steam to remove wrinkles.",
                  texture |-> "textured",
                  drape |-> "structured"]
          [] k = "wool blend" ->
                 [name |-> "wool blend",
                  formality_level |-> 4,
                  weight |-> "medium",
                  seasonal_suitability |-> <<"winter", "all-season">>,
                  occasions |-> <<"western_formal", "business_casual">>,
                  care_note |-> "Dry clean recommended.",
                  texture |-> "smooth",
                  drape |-> "structured"]
          [] k = "denim" ->
                 [name |-> "denim",
                  formality_level |-> 2,
                  weight |-> "heavy",
                  seasonal_suitability |-> <<"all-season">>,
                  occasions |-> <<"casual", "streetwear", "indian_casual">>,
                  care_note |-> "Wash inside out. Cold wash to prevent fading.",
                  texture |-> "textured",
                  drape |-> "stiff"]
          [] k = "cotton poplin" ->
                 [name |-> "cotton poplin",
                  formality_level |-> 3,
                  weight |-> "light",
                  seasonal_suitability |-> <<"all-season">>,
                  occasions |-> <<"western_formal", "business_casual", "smart_casual">>,
                  care_note |-> "Machine washable. Iron on medium heat - sharp collar important.",
                  texture |-> "smooth",
                  drape |-> "medium"]
          [] k = "oxford cloth" ->
                 [name |-> "oxford cloth",
                  formality_level |-> 3,
                  weight |-> "medium",
                  seasonal_suitability |-> <<"all-season">>,
                  occasions |-> <<"business_casual", "smart_casual", "casual">>,
                  care_note |-> "Machine washable.",
                  texture |-> "textured",
                  drape |-> "medium"]
          [] k = "velvet" ->
                 [name |-> "velvet",
                  formality_level |-> 5,
                  weight |-> "heavy",
                  seasonal_suitability |-> <<"winter">>,
                  occasions |-> <<"party", "indian_formal", "wedding_guest_indian">>,
                  care_note |-> "Dry clean only. Store on hanger - folding crushes pile.",
                  texture |-> "smooth",
                  drape |-> "structured"]
          [] k = "jersey" ->
                 [name |-> "jersey",
                  formality_level |-> 1,
                  weight |-> "light",
                  seasonal_suitability |-> <<"all-season">>,
                  occasions |-> <<"casual", "gym", "streetwear", "lounge">>,
                  care_note |-> "Machine washable.",
                  texture |-> "smooth",
                  drape |-> "fluid"]]

(***************************************************************************)
(* fashion_knowledge/seasonal_color.py table                                *)
(***************************************************************************)

SEASONS_KEYS ==
    <<"spring",
      "summer",
      "autumn",
      "winter">>

SEASONS ==
    [k \in Range(SEASONS_KEYS) |->
        CASE k = "spring" ->
                 [season |-> "spring",
                  description |-> "Warm, clear, light",
                  characteristics |-> "Warm or neutral undertone with light to medium skin depth. Hair typically medium to light brown, golden, or warm black.",
                  intensity |-> "light and clear",
                  palette_do |-> <<"peach", "coral", "warm ivory", "golden yellow", "warm turquoise",
                        "bright coral red", "camel", "warm salmon", "light warm brown",
                        "golden tan", "grass green", "warm sky blue", "clear orange">>,
                  palette_avoid |-> <<"cool grey", "muted navy", "dark burgundy", "cool white", "black",
                        "mauve", "dusty rose", "forest green", "icy lavender">>,
                  fabric_finishes |-> <<"soft sheen", "clear", "lightweight matte">>]
          [] k = "summer" ->
                 [season |-> "summer",
                  description |-> "Cool, muted, light",
                  characteristics |-> "Cool or neutral undertone with light to medium skin depth. Hair often light to medium ash or cool brown.",
                  intensity |-> "cool and soft",
                  palette_do |-> <<"dusty rose", "mauve", "powder blue", "soft lavender", "cool grey",
                        "slate blue", "dusty teal", "soft white", "muted pink", "periwinkle",
                        "cool taupe", "light sage", "cool beige">>,
                  palette_avoid |-> <<"warm orange", "rust", "camel", "warm gold", "bright coral",
                        "warm brown", "mustard", "tomato red", "warm olive">>,
                  fabric_finishes |-> <<"matte", "soft sheen", "jersey">>]
          [] k = "autumn" ->
                 [season |-> "autumn",
                  description |-> "Warm, muted, deep",
                  characteristics |-> "Warm undertone (warm, deep_warm, or olive_warm) with medium to deep skin. Hair dark brown, warm black, or deep auburn. Common in South Asian coloring.",
                  intensity |-> "deep and muted",
                  palette_do |-> <<"rust", "terracotta", "burnt orange", "deep olive", "warm brown",
                        "camel", "mustard", "warm khaki", "forest green", "warm teal",
                        "brick red", "warm burgundy", "cognac", "dark chocolate", "gold",
                        "deep peach">>,
                  palette_avoid |-> <<"icy white", "cool grey", "pastel blue", "cool pink", "lavender",
                        "bright cobalt", "cool silver", "stark black">>,
                  fabric_finishes |-> <<"matte", "textured matte", "soft nap">>]
          [] k = "winter" ->
                 [season |-> "winter",
                  description |-> "Cool, clear, deep",
                  characteristics |-> "Cool undertone (cool or deep_cool) with medium to deep skin. Hair dark, often jet black or very dark brown. High contrast overall.",
                  intensity |-> "deep and rich",
                  palette_do |-> <<"true black", "bright white", "navy", "royal blue", "emerald",
                        "deep burgundy", "fuchsia", "sapphire", "cool red", "charcoal",
                        "icy pink", "cobalt", "deep purple", "cool magenta">>,
                  palette_avoid |-> <<"warm orange", "camel", "rust", "warm beige", "warm gold",
                        "muted earth tones", "warm olive", "peach">>,
                  fabric_finishes |-> <<"jewel sheen", "clear", "structured matte">>]]

(***************************************************************************)
(* fashion_knowledge/style_archetypes.py table                              *)
(***************************************************************************)

ARCHETYPES_KEYS ==
    <<"classic",
      "streetwear",
      "ethnic_traditional",
      "smart_casual",
      "avant_garde",
      "athletic",
      "eclectic">>

ARCHETYPES ==
    [k \in Range(ARCHETYPES_KEYS) |->
        CASE k = "classic" ->
                 [name |-> "classic",
                  description |-> "Timeless, conservative, and precise - quality over trend, fit over flash.",
                  signature_pieces |-> <<"Well-tailored suit (navy, charcoal, mid-grey)", "Crisp oxford shirt",
                        "Bandhgala suit for Indian formal occasions", "Slim-cut dark chinos",
                        "Leather Oxford or Derby shoe (polished)",
                        "Simple leather watch with a classic case",
                        "Silk pocket square (white or muted)">>,
                  color_approach |-> "Muted, restrained palette - navy, charcoal, camel, cream, white. No more than 2-3 colors in any outfit. Patterns minimal and classic (fine stripe, fine check).",
                  fit_default |-> "slim to tailored",
                  occasions_natural_fit |-> <<"western_business_formal", "western_business_casual", "indian_formal",
                        "smart_casual">>,
                  upgrade_moves |-> <<"Invest in one suit that is made-to-measure - fit is where classic wins",
                        "A tan or cognac leather watch strap elevates without shouting",
                        "Move from polyester to wool or wool-blend for suiting",
                        "Add a silk pocket square in a muted tone - not a printed one",
                        "Upgrade shoe quality before any other piece - classic lives in the details">>,
                  pitfalls |-> <<"Wearing classic pieces in bad fit - defeats the entire purpose",
                        "Overdoing the formality for the occasion - classic should be appropriate, not costumey",
                        "Forgetting that classic needs regular grooming - stubble, neat hair, clean shoes are non-negotiable",
                        "Playing it so safe it becomes boring - one considered accent piece lifts it">>,
                  celebrity_reference |-> "Think Rahul Dravid's off-duty look - precise, understated, confident. Or Anil Kapoor's formal appearances - never overdressed, always exactly right.",
                  grooming_alignment |-> "Clean shave or very short, well-maintained stubble. Classic short haircut - taper, side part, or neat crop. Grooming must match the precision of the clothing."]
          [] k = "streetwear" ->
                 [name |-> "streetwear",
                  description |-> "Culture-led, expressive, and brand-aware - drawing from music, sport, and youth subculture.",
                  signature_pieces |-> <<"Graphic tee (quality print, not fast-fashion)",
                        "Cargo trousers or utility pants",
                        "Clean, well-maintained sneakers (condition is critical)",
                        "Oversized hoodies or tech fleece",
                        "Statement outerwear - bomber, MA-1 jacket",
                        "Streetwear-appropriate accessories: caps, chains, crossbody",
                        "Jordans, Dunks, or clean technical runners">>,
                  color_approach |-> "Bold color blocking or careful monochromatic. Neutrals (black, white, grey, tan) as base; one color accent worn deliberately - not accidentally.",
                  fit_default |-> "relaxed to oversized",
                  occasions_natural_fit |-> <<"western_streetwear", "casual", "travel", "party">>,
                  upgrade_moves |-> <<"Sneaker condition is non-negotiable - dirty sneakers undermine everything else",
                        "Move from printed logos to clean, design-led pieces",
                        "Proportion matters even in streetwear - oversized top + slim/tapered base",
                        "One statement piece per outfit - not three simultaneously",
                        "Invest in one piece at a time: better one quality sneaker than five mediocre">>,
                  pitfalls |-> <<"Wearing too many statement pieces at once - the eye has nowhere to rest",
                        "Ignoring fit entirely - relaxed is intentional, sloppy is not",
                        "Dirty or scuffed sneakers - this is the fastest credibility killer in streetwear",
                        "Wearing heavy graphics with heavy graphics - clashing visual noise",
                        "Treating the Indian weather as an afterthought - layering needs heat management">>,
                  celebrity_reference |-> "Think Ranveer Singh's off-duty - fearless with color and proportion, but always considered. Or A$AP Rocky's editorial streetwear - intentional at every level.",
                  grooming_alignment |-> "Grooming is part of the look here. Fade, textured crop, or a defined shape - nothing accidental. Beard: short and precise, or clean shaven. Jewellery is part of the grooming: rings, chains are intentional accessories."]
          [] k = "ethnic_traditional" ->
                 [name |-> "ethnic_traditional",
                  description |-> "Rooted in Indian craft and tradition - prioritising fabric quality, artisan techniques, and occasion appropriateness.",
                  signature_pieces |-> <<"Chanderi or silk-cotton kurta",
                        "Raw silk or brocade sherwani for wedding occasions",
                        "Churidar or straight-cut salwar", "Mojaris, juttis, or kolhapuris",
                        "Bandhgala jacket as smart ethnic formal",
                        "Handblock print or handloom kurta for casual ethnic",
                        "Classic pagdi or safa for wedding occasions">>,
                  color_approach |-> "Rich, warm jewel tones for formal - emerald, burgundy, sapphire, deep gold. Earthy, handwoven tones for casual - natural dyes, block print palettes. Avoid Western-style pastels and neons in traditional pieces.",
                  fit_default |-> "regular to relaxed",
                  occasions_natural_fit |-> <<"indian_formal", "indian_casual", "wedding_guest_indian", "festival",
                        "ethnic_fusion">>,
                  upgrade_moves |-> <<"Fabric quality is the single biggest upgrade - move from polyester to cotton, chanderi, or silk-blend",
                        "Invest in one quality pair of footwear (mojaris or juttis) - they transform any kurta",
                        "Understand which collar style suits your face shape (bandhgala, nehru, mandarin)",
                        "Appropriate kurta length for your height and body shape is non-negotiable",
                        "One quality piece of Indian jewellery or a classic watch elevates the look">>,
                  pitfalls |-> <<"Mismatching fabric weights within an outfit - silk kurta with cotton churidar reads cheap",
                        "Ignoring kurta length for your height and body shape",
                        "Wrong footwear language - leather oxford with sherwani, rubber chappal with wedding kurta",
                        "Formality mismatch - cotton casual kurta at a formal occasion",
                        "Over-embellishment - more embroidery is not always more formal">>,
                  celebrity_reference |-> "Think Virat Kohli at BCCI events - understated, well-fitted, fabric-first. Or Nawazuddin Siddiqui at award functions - quality kurtas, precise fit, quiet confidence.",
                  grooming_alignment |-> "Clean, well-maintained beard or clean shave. Ethnic formal demands neat grooming - stubble should be defined, not accidental. Hair: well-set and clean. Avoid very modern cuts with traditional formal - a classic cut or slicked-back look suits the occasion better."]
          [] k = "smart_casual" ->
                 [name |-> "smart_casual",
                  description |-> "The most versatile archetype - elevated enough for professional settings, relaxed enough to feel human.",
                  signature_pieces |-> <<"Clean chinos (olive, navy, stone, tan)",
                        "Oxford or OCBD shirt - solid or fine check",
                        "Loafers (leather or suede - no rubber sport soles)",
                        "Structured polo or high-quality jersey",
                        "Slim-fit dark jeans (no distressing for smart end)",
                        "Leather or suede Chelsea boots", "Unstructured linen or cotton blazer">>,
                  color_approach |-> "Tonal, muted, but not dull. Navy + white, olive + beige, grey + cream - two complementary colors. Accent with one muted tone.",
                  fit_default |-> "slim to regular",
                  occasions_natural_fit |-> <<"smart_casual", "western_business_casual", "indian_casual",
                        "ethnic_fusion", "travel">>,
                  upgrade_moves |-> <<"Move from generic brands to quality basics - the fabric shows",
                        "Introduce one interesting texture per outfit: a linen blazer, a suede loafer",
                        "Well-fitted chinos are the backbone - invest in two pairs that fit perfectly",
                        "A leather watch strap over a rubber one immediately raises the formality dial",
                        "Shoes: the one place to spend more - they anchor the entire smart-casual look">>,
                  pitfalls |-> <<"Mixing too many casual signals at once - denim + hoodie + trainers is casual, not smart-casual",
                        "Ignoring shoe quality - scuffed shoes undermine everything above them",
                        "Treating smart-casual as an excuse for poor fit",
                        "Over-ironed or stiff-looking pieces - smart-casual should feel effortless">>,
                  celebrity_reference |-> "Think Mahendra Singh Dhoni's airport look - relaxed, quality fabrics, no unnecessary logos. Or Benedict Cumberbatch's press-day casualwear - it always looks considered, never overdone.",
                  grooming_alignment |-> "This archetype needs tidy, well-maintained grooming - not formal, but certainly not neglected. A medium beard is fine if well-shaped. Hair should look intentional, not accidental."]
          [] k = "avant_garde" ->
                 [name |-> "avant_garde",
                  description |-> "Experimental, design-led, and convention-defying - wears ideas as much as garments.",
                  signature_pieces |-> <<"Deconstructed or asymmetric silhouettes",
                        "Strong, unexpected color combinations",
                        "Oversized or exaggerated proportions",
                        "Statement outerwear as the centrepiece",
                        "Unusual textures: bonded, raw-edged, washed",
                        "Minimal or no visible branding",
                        "Fashion-forward ethnic fusion: dhoti pants with structured jackets">>,
                  color_approach |-> "Bold and intentional - monochromatic all-black, unexpected complementary pairs, or deliberate tonal clashing. Color is always a decision, never an accident.",
                  fit_default |-> "oversized to experimental",
                  occasions_natural_fit |-> <<"party", "creative_professional", "fashion_events", "travel">>,
                  upgrade_moves |-> <<"Ground experimental pieces with one anchor - clean shoes, a simple base",
                        "Understand proportion before you break it - rules exist before they can be subverted",
                        "One statement piece per outfit - let it be the conversation, not a chorus",
                        "Invest in quality even in experimental pieces - construction shows">>,
                  pitfalls |-> <<"Looking chaotic rather than considered - avant-garde requires more thought, not less",
                        "Wrong occasion - this archetype is context-dependent",
                        "Prioritising the look over comfort and function at inappropriate moments",
                        "Ignoring grooming - avant-garde style with accidental grooming reads as neglect">>,
                  celebrity_reference |-> "Think Ranveer Singh's award-season looks - deliberate provocation, always a point of view. Or Billy Porter - nothing accidental, every element intentional.",
                  grooming_alignment |-> "Grooming is part of the statement here. A long, styled beard or a bold haircut reinforces the archetype. Or a completely clean look as contrast to the clothing - the juxtaposition is the point."]
          [] k = "athletic" ->
                 [name |-> "athletic",
                  description |-> "Function-first, performance-aware, and increasingly elevated - athleisure done with intention.",
                  signature_pieces |-> <<"Performance joggers or track trousers (tailored, not boxy)",
                        "Clean technical runners or court shoes",
                        "Quality jersey or fleece in neutral tones",
                        "Structured athletic jacket (not a cheap windbreaker)",
                        "Compression or fitted base layers under casual layers",
                        "Quarter-zip or half-zip technical top",
                        "Minimal accessories - clean watch, no-logo cap">>,
                  color_approach |-> "Tonal neutrals - black, grey, white, navy. One color accent: a single clean color in the shoe or outer layer.",
                  fit_default |-> "regular to slim",
                  occasions_natural_fit |-> <<"gym", "travel", "casual", "western_streetwear">>,
                  upgrade_moves |-> <<"Move from sports brands to performance-lifestyle brands for elevated pieces",
                        "Tailored track trousers over baggy gym shorts - the single biggest upgrade",
                        "Shoe condition is everything in athletic - clean shoes, every time",
                        "One quality technical jacket over a hoodie for the gym-to-street transition">>,
                  pitfalls |-> <<"Wearing gym wear to non-gym settings without elevation",
                        "Logos and branding everywhere simultaneously",
                        "Dirty shoes - the fastest way to look unintentional",
                        "Wearing athletic exclusively when the occasion calls for more formality">>,
                  celebrity_reference |-> "Think Kohli's training-day outfits - clean, quality athleisure, minimal logos. Or David Beckham's sportswear - elevated basics with excellent fit.",
                  grooming_alignment |-> "Short, maintained haircut - fade or crop. Beard: short and defined, or clean shaven. Athletic archetype and long unkempt grooming are at odds. The physical appearance of the face should match the deliberateness of the look."]
          [] k = "eclectic" ->
                 [name |-> "eclectic",
                  description |-> "Genre-fluid and culturally layered - mixing Indian and Western, vintage and contemporary, with deliberate confidence.",
                  signature_pieces |-> <<"Kurta over slim Western trousers",
                        "Ethnic print shirt with tailored chinos",
                        "Bandhgala jacket over a Western shirt and denim",
                        "Vintage-inspired piece as the hero of an otherwise modern look",
                        "Mix of Indian and Western accessories">>,
                  color_approach |-> "Bold but cohesive - the tonal story still needs to be told across the mix. Ethnic colours paired with Western neutrals to prevent visual chaos.",
                  fit_default |-> "regular - varied by piece",
                  occasions_natural_fit |-> <<"ethnic_fusion", "smart_casual", "party", "festival">>,
                  upgrade_moves |-> <<"Anchor each outfit with one neutral piece to ground the mix",
                        "Ensure there is a clear tonal story even across different styles",
                        "Footwear must make a language decision - Indian or Western, not both simultaneously",
                        "Resist adding too many elements - three considered pieces, not six">>,
                  pitfalls |-> <<"Mixing styles without a coherent tonal or visual story",
                        "Wearing three statement pieces simultaneously - too much",
                        "Ethnic top with sportswear bottoms - this fusion doesn't work",
                        "Not considering footwear language - shoes must commit to one register">>,
                  celebrity_reference |-> "Think Saif Ali Khan's casual appearances - easy fusion that looks effortless. Or Farhan Akhtar's festival outfits - Indian and Western elements in genuine dialogue.",
                  grooming_alignment |-> "Medium length, well-maintained styling. Eclectic archetype can support a more distinctive hair or beard choice - but it must be maintained, not accidental."]]

(***************************************************************************)
(* fashion_knowledge/proportion_theory.py matrix                            *)
(***************************************************************************)

MATRIX_KEYS ==
    <<<<"tall", "rectangle">>,
      <<"tall", "triangle">>,
      <<"tall", "inverted_triangle">>,
      <<"tall", "oval">>,
      <<"tall", "trapezoid">>,
      <<"average", "rectangle">>,
      <<"average", "triangle">>,
      <<"average", "inverted_triangle">>,
      <<"average", "oval">>,
      <<"average", "trapezoid">>,
      <<"petite", "rectangle">>,
      <<"petite", "triangle">>,
      <<"petite", "inverted_triangle">>,
      <<"petite", "oval">>,
      <<"petite", "trapezoid">>>>

MATRIX ==
    [k \in Range(MATRIX_KEYS) |->
        CASE k = <<"tall", "rectangle">> ->
                 [height |-> "tall",
                  body_shape |-> "rectangle",
                  visual_goal |-> "Add width definition and waist interest to a long, straight frame",
                  do |-> <<"Contrast top and bottom to create a visual break",
                        "Belted silhouettes - nip the waist to create the illusion of shape",
                        "Structured shoulders to add breadth",
                        "Horizontal detailing at chest or hip level",
                        "Bold patterns - your height carries them without feeling overwhelming">>,
                  avoid |-> <<"Boxy all-over with no definition - elongates without adding shape",
                        "Monochromatic top-to-toe with no contrast - flattens the silhouette",
                        "Overly long hemlines that emphasise the vertical line">>,
                  trouser_break |-> "slight",
                  kurta_length |-> "mid-thigh",
                  jacket_length |-> "hip-length",
                  belt_use |-> "emphasise",
                  layer_strategy |-> "Add a structured outer layer at hip length to create width contrast. Open front works well - adds frame without closing the silhouette."]
          [] k = <<"tall", "triangle">> ->
                 [height |-> "tall",
                  body_shape |-> "triangle",
                  visual_goal |-> "Build shoulder presence and draw the eye upward away from wider hips",
                  do |-> <<"Structured shoulders - padding or strong shoulder seam",
                        "Bold top details: patterns, textures, interesting necklines",
                        "Dark bottoms to visually narrow the hip zone",
                        "Contrast in favour of the top half",
                        "V-necks and open collars to broaden the upper chest visually">>,
                  avoid |-> <<"Tight bottoms with tight top - hip width is maximised",
                        "Horizontal patterns at hip level",
                        "Light or bright bottoms paired with dark tops",
                        "Dropped shoulder tops - reduces already-narrow shoulder line">>,
                  trouser_break |-> "slight",
                  kurta_length |-> "hip",
                  jacket_length |-> "hip-length to mid-thigh",
                  belt_use |-> "avoid",
                  layer_strategy |-> "Layer structurally at the top - a blazer or structured shirt over a base layer adds shoulder mass. Keep bottoms clean and untextured."]
          [] k = <<"tall", "inverted_triangle">> ->
                 [height |-> "tall",
                  body_shape |-> "inverted_triangle",
                  visual_goal |-> "Balance wide shoulders by drawing volume and interest downward",
                  do |-> <<"Longer hemlines - mid-thigh to below-knee kurtas, longer jackets",
                        "V-necks and vertical top lines to minimise chest breadth",
                        "A-line or tapered bottoms for visual balance",
                        "Muted, darker tones on top, more interesting textures below",
                        "Straight-leg trousers - wide enough to balance the upper body">>,
                  avoid |-> <<"Shoulder pads or epaulettes",
                        "Boat necks and wide horizontal collar lines",
                        "Cropped tops or jackets - maximises shoulder-to-hip disparity",
                        "Puffed sleeves or heavily textured upper arms",
                        "Narrow, tapered trousers with a bulky top">>,
                  trouser_break |-> "none",
                  kurta_length |-> "mid-thigh to below-knee",
                  jacket_length |-> "mid-thigh or longer",
                  belt_use |-> "optional",
                  layer_strategy |-> "Keep layers minimal on top. A long open layer (longline cardigan, open bandhgala) elongates the torso and draws the eye down."]
          [] k = <<"tall", "oval">> ->
                 [height |-> "tall",
                  body_shape |-> "oval",
                  visual_goal |-> "Create vertical length through the midsection, define the silhouette",
                  do |-> <<"Vertical lines - pinstripes, long open layering, vertical seam details",
                        "Open necklines - V-neck, open collar, mandarin without button closure",
                        "Straight, unconstructed cuts that skim without clinging",
                        "Longer hemlines to extend the vertical line past the midsection",
                        "Monochromatic dressing for maximum elongation">>,
                  avoid |-> <<"Horizontal waist bands or belts",
                        "Cropped tops - cuts the eye at the widest point",
                        "Un-tucked shirts without structure - increases volume",
                        "Hip-level horizontal patterns", "Boxy silhouettes all over">>,
                  trouser_break |-> "none",
                  kurta_length |-> "mid-thigh to below-knee",
                  jacket_length |-> "mid-thigh or longer",
                  belt_use |-> "avoid",
                  layer_strategy |-> "Single long vertical layer - longline blazer or kurta. Avoid short outer layers that break the line."]
          [] k = <<"tall", "trapezoid">> ->
                 [height |-> "tall",
                  body_shape |-> "trapezoid",
                  visual_goal |-> "Maintain proportional balance - your frame is naturally balanced; height does the rest",
                  do |-> <<"Most silhouettes work - focus on proportional balance",
                        "Slightly tapered bottoms to keep the shape clean at height",
                        "Structured outerwear to maintain presence">>,
                  avoid |-> <<"Excessive volume everywhere simultaneously",
                        "Overly cropped tops - can look unbalanced at height">>,
                  trouser_break |-> "slight",
                  kurta_length |-> "mid-thigh",
                  jacket_length |-> "hip to mid-thigh",
                  belt_use |-> "optional",
                  layer_strategy |-> "Experiment freely - your proportions support most combinations. Watch that outer layers don't add unnecessary bulk."]
          [] k = <<"average", "rectangle">> ->
                 [height |-> "average",
                  body_shape |-> "rectangle",
                  visual_goal |-> "Add shape definition to a straight frame without adding unwanted height",
                  do |-> <<"Belted or waist-defining cuts",
                        "Contrast between top and bottom colour",
                        "Structured shoulders, slightly defined waist",
                        "Mid-weight patterns - not overwhelming at average height",
                        "Half-break trouser - safe default for a clean silhouette">>,
                  avoid |-> <<"Boxy cuts with no waist interest",
                        "Very long hemlines that cut visual leg length">>,
                  trouser_break |-> "half",
                  kurta_length |-> "hip to mid-thigh",
                  jacket_length |-> "hip-length",
                  belt_use |-> "emphasise",
                  layer_strategy |-> "A structured jacket or bandhgala at hip length adds shape. Keep the inner layer fitted."]
          [] k = <<"average", "triangle">> ->
                 [height |-> "average",
                  body_shape |-> "triangle",
                  visual_goal |-> "Broaden the upper body and narrow the visual hip width",
                  do |-> <<"Wide or structured lapels to build shoulder frame",
                        "Top details - patterns, textures, pockets at chest level",
                        "Darker, plain bottoms",
                        "Slight half-break on trousers - keeps the leg clean">>,
                  avoid |-> <<"Narrow collars that reduce the shoulder line",
                        "Light or textured bottoms that draw attention to hips",
                        "Horizontal patterns below the waist">>,
                  trouser_break |-> "half",
                  kurta_length |-> "hip",
                  jacket_length |-> "hip-length",
                  belt_use |-> "avoid",
                  layer_strategy |-> "Structured jacket or blazer is the single most effective tool - builds shoulder mass immediately. Keep the base slim."]
          [] k = <<"average", "inverted_triangle">> ->
                 [height |-> "average",
                  body_shape |-> "inverted_triangle",
                  visual_goal |-> "Soften broad shoulders and balance the lower half",
                  do |-> <<"Mid-thigh kurtas - elongate and balance at average height",
                        "Vertical lines and V-neck openings",
                        "Slightly wider trousers to balance upper body width",
                        "Half-break - clean without shortening the leg">>,
                  avoid |-> <<"Boat necks, wide collars, shoulder emphasis",
                        "Cropped jackets or short tops">>,
                  trouser_break |-> "half",
                  kurta_length |-> "mid-thigh",
                  jacket_length |-> "mid-thigh",
                  belt_use |-> "optional",
                  layer_strategy |-> "A longline outer layer (mid-thigh length) draws the eye down and balances the wide shoulder. Avoid short bomber-style jackets."]
          [] k = <<"average", "oval">> ->
                 [height |-> "average",
                  body_shape |-> "oval",
                  visual_goal |-> "Create vertical elongation through the midsection at average height",
                  do |-> <<"Long vertical layers - longline jacket, structured kurta",
                        "Open necklines - V, mandarin, no collar",
                        "Mid-thigh to below-knee hemlines to extend the vertical",
                        "Monochromatic dressing in dark or neutral tones">>,
                  avoid |-> <<"Waist bands, belts, anything that marks the widest zone",
                        "Cropped tops", "Horizontal waist-level details", "Clingy fabrics">>,
                  trouser_break |-> "none",
                  kurta_length |-> "mid-thigh to below-knee",
                  jacket_length |-> "mid-thigh",
                  belt_use |-> "avoid",
                  layer_strategy |-> "One clean vertical outer layer. Avoid multiple short layers that break the line and add horizontal interest."]
          [] k = <<"average", "trapezoid">> ->
                 [height |-> "average",
                  body_shape |-> "trapezoid",
                  visual_goal |-> "Maintain the natural balance - standard proportional rules apply",
                  do |-> <<"Most silhouettes work - concentrate on fit quality",
                        "Half-break trouser is the safe default",
                        "Slight waist definition in structured pieces">>,
                  avoid |-> <<"Excessive volume in both top and bottom simultaneously">>,
                  trouser_break |-> "half",
                  kurta_length |-> "hip to mid-thigh",
                  jacket_length |-> "hip-length",
                  belt_use |-> "optional",
                  layer_strategy |-> "Standard layering - heavier fabric on top, base slim."]
          [] k = <<"petite", "rectangle">> ->
                 [height |-> "petite",
                  body_shape |-> "rectangle",
                  visual_goal |-> "Add length to the frame while creating shape definition",
                  do |-> <<"No trouser break - any break shortens the leg further",
                        "Monochromatic or tonal dressing to add visual height",
                        "Slim-fit cuts - excess volume overwhelms a petite frame",
                        "Ankle-length or cropped trousers to show the shoe",
                        "Subtle vertical details to elongate">>,
                  avoid |-> <<"Large prints that overwhelm the frame",
                        "Mid-calf hemlines that chop the leg", "Heavy layering",
                        "Wide-leg trousers without height">>,
                  trouser_break |-> "none",
                  kurta_length |-> "hip",
                  jacket_length |-> "hip-length (never longer - shortens further)",
                  belt_use |-> "emphasise",
                  layer_strategy |-> "Keep outer layers short - hip-length at maximum. Long layers are the fastest way to shorten a petite frame."]
          [] k = <<"petite", "triangle">> ->
                 [height |-> "petite",
                  body_shape |-> "triangle",
                  visual_goal |-> "Build shoulder presence without adding height-reducing volume",
                  do |-> <<"Structured shoulders to broaden and lift the eye upward",
                        "No trouser break",
                        "Short jackets - hip-length only - to avoid cutting the frame",
                        "Ankle-length trousers to maximise leg length">>,
                  avoid |-> <<"Mid-calf or longer hemlines",
                        "Very wide-leg trousers - disproportionate at petite height",
                        "Dropped shoulders">>,
                  trouser_break |-> "none",
                  kurta_length |-> "hip",
                  jacket_length |-> "hip-length only",
                  belt_use |-> "avoid",
                  layer_strategy |-> "A structured blazer or bandhgala at hip length is ideal - adds shoulder and stops at the right point."]
          [] k = <<"petite", "inverted_triangle">> ->
                 [height |-> "petite",
                  body_shape |-> "inverted_triangle",
                  visual_goal |-> "Balance wide shoulders without losing precious frame height",
                  do |-> <<"No trouser break - adds maximum leg length",
                        "V-neck to reduce chest breadth visually",
                        "Slightly tapered trousers - shows the ankle, adds length",
                        "Hip-length kurtas - any longer and height is lost",
                        "Darker tones on top to reduce emphasis">>,
                  avoid |-> <<"Long kurtas or jackets - counter-productive at petite height",
                        "Wide-leg trousers that shorten the leg",
                        "Shoulder padding or epaulettes">>,
                  trouser_break |-> "none",
                  kurta_length |-> "hip",
                  jacket_length |-> "hip-length only",
                  belt_use |-> "optional",
                  layer_strategy |-> "Avoid extra layers on top. If layering is needed, keep it short and slim - a nehru jacket at hip length at most."]
          [] k = <<"petite", "oval">> ->
                 [height |-> "petite",
                  body_shape |-> "oval",
                  visual_goal |-> "Elongate the silhouette vertically while managing midsection volume - height is the primary tool",
                  do |-> <<"No trouser break - critical",
                        "Monochromatic dressing from head to toe in dark or neutral tones",
                        "Vertical lines wherever possible - placket, seam, stripe",
                        "Long open layers - a longline open jacket elongates IF it ends no lower than knee",
                        "Slim-leg trousers, not wide-leg">>,
                  avoid |-> <<"Any waist marking - belts, waist bands, cinching", "Cropped tops",
                        "Large prints that visually expand",
                        "Mid-calf hemlines that cut the leg at its widest">>,
                  trouser_break |-> "none",
                  kurta_length |-> "hip to mid-thigh (never below knee - shortens)",
                  jacket_length |-> "hip-length maximum",
                  belt_use |-> "avoid",
                  layer_strategy |-> "One vertical layer in the same tonal family. Nothing that breaks the line at the midsection."]
          [] k = <<"petite", "trapezoid">> ->
                 [height |-> "petite",
                  body_shape |-> "trapezoid",
                  visual_goal |-> "Use height-extending techniques to maximise the naturally balanced frame",
                  do |-> <<"No trouser break - every millimetre of leg counts",
                        "Monochromatic or tonal dressing to add visual height",
                        "Well-fitted cuts - petite height needs precision, not volume",
                        "Ankle-length trousers with a slim shoe">>,
                  avoid |-> <<"Mid-calf hemlines", "Heavy layering that adds bulk",
                        "Oversized silhouettes">>,
                  trouser_break |-> "none",
                  kurta_length |-> "hip",
                  jacket_length |-> "hip-length",
                  belt_use |-> "optional",
                  layer_strategy |-> "Short, fitted outer layer only. Height is the limiting constraint - any long layer costs visual leg length."]]

(***************************************************************************)
(* fashion_knowledge/color_theory.py palettes                               *)
(***************************************************************************)

PALETTES_KEYS ==
    <<"warm",
      "cool",
      "neutral",
      "deep_warm",
      "deep_cool",
      "olive_warm">>

PALETTES ==
    [k \in Range(PALETTES_KEYS) |->
        CASE k = "warm" ->
                 [do |-> <<"rust", "terracotta", "camel", "warm beige", "mustard", "peach",
                        "coral", "warm red", "burnt orange", "olive green", "warm brown",
                        "cream", "gold">>,
                  avoid |-> <<"cool grey", "icy white", "lavender", "cobalt blue", "cool pink",
                        "silver">>]
          [] k = "cool" ->
                 [do |-> <<"navy", "burgundy", "cool grey", "emerald", "cobalt", "cool white",
                        "rose", "mauve", "icy blue", "charcoal", "silver", "cool teal">>,
                  avoid |-> <<"warm yellows", "orange", "rust", "warm beige", "gold">>]
          [] k = "neutral" ->
                 [do |-> <<"muted rust", "muted navy", "soft grey", "dusty rose", "warm taupe",
                        "desaturated teal", "soft burgundy", "stone", "sage", "blush">>,
                  avoid |-> <<"neon yellow", "neon orange", "electric blue", "hot pink">>]
          [] k = "deep_warm" ->
                 [do |-> <<"sapphire", "emerald", "deep burgundy", "royal purple",
                        "warm earth tones", "gold", "rust", "deep teal", "forest green",
                        "rich burgundy">>,
                  avoid |-> <<"pastel pink", "pastel yellow", "pastel blue", "pastel lavender",
                        "neon", "very light neutrals", "cream">>]
          [] k = "deep_cool" ->
                 [do |-> <<"jewel tones", "cobalt blue", "fuchsia", "royal purple", "silver",
                        "cool emerald", "icy white", "deep teal", "charcoal">>,
                  avoid |-> <<"rust", "warm earth tones", "gold", "warm orange", "camel">>]
          [] k = "olive_warm" ->
                 [do |-> <<"warm earth tones", "muted greens", "warm tans", "terracotta",
                        "deep blues", "mustard", "rust", "forest green", "warm navy">>,
                  avoid |-> <<"nude beige", "cool pastels", "stark white", "icy pink">>]]

(***************************************************************************)
(* fashion_knowledge/body_types.py rules                                    *)
(***************************************************************************)

RULES_KEYS ==
    <<"rectangle",
      "triangle",
      "inverted_triangle",
      "oval",
      "trapezoid">>

RULES ==
    [k \in Range(RULES_KEYS) |->
        CASE k = "rectangle" ->
                 [shape |-> "rectangle",
                  do |-> <<"structured shoulders", "belted silhouettes", "contrast top/bottom",
                        "double-breasted jackets", "layering to add visual depth",
                        "horizontal stripe on top to add perceived width">>,
                  avoid |-> <<"boxy all-over with no definition",
                        "single-colour head-to-toe without any waist emphasis">>,
                  notes |-> "Goal: create the illusion of a defined waist."]
          [] k = "triangle" ->
                 [shape |-> "triangle",
                  do |-> <<"structured shoulders",
                        "top details (lapels, pockets, patterns on chest)", "darker bottoms",
                        "wider-collar shirts", "horizontal stripes or bold prints on top",
                        "lighter colours on top">>,
                  avoid |-> <<"tight bottom + tight top together", "hip-level horizontal patterns",
                        "cargo or wide-leg trousers without structure on top">>,
                  notes |-> "Goal: balance narrower shoulders vs wider hips by drawing attention upward."]
          [] k = "inverted_triangle" ->
                 [shape |-> "inverted_triangle",
                  do |-> <<"longer hemlines",
                        "V-necks and open necklines (draw eye inward and down)",
                        "vertical top lines", "A-line or tapered bottoms",
                        "mid-thigh or longer kurtas", "solid or small-pattern tops">>,
                  avoid |-> <<"shoulder padding", "chest horizontal stripes", "puffed sleeves",
                        "epaulettes or wide lapels",
                        "bold top patterns that amplify shoulder width">>,
                  notes |-> "Goal: minimise perceived shoulder width; elongate downward."]
          [] k = "oval" ->
                 [shape |-> "oval",
                  do |-> <<"vertical lines and pinstripes",
                        "open necklines (V-neck, open collar)", "straight cuts",
                        "longer lengths", "dark monochromatic palette", "structured outer layer">>,
                  avoid |-> <<"horizontal waist bands", "cropped tops",
                        "un-tucked shirts without structure", "clingy fabrics",
                        "bold horizontal patterns at the midsection">>,
                  notes |-> "Goal: create a vertical, elongating line through the silhouette."]
          [] k = "trapezoid" ->
                 [shape |-> "trapezoid",
                  do |-> <<"most silhouettes work",
                        "maintain proportional balance between top and bottom",
                        "fitted garments that follow the natural taper",
                        "both casual and formal cuts">>,
                  avoid |-> <<"excessive bulk everywhere",
                        "oversized top + oversized bottom simultaneously">>,
                  notes |-> "Trapezoid is considered the most versatile male body shape."]]

(***************************************************************************)
(* fashion_knowledge/grooming_guide.py tables                               *)
(***************************************************************************)

HAIRCUT_RULES_KEYS ==
    <<"oval",
      "square",
      "round",
      "oblong",
      "heart",
      "diamond">>

HAIRCUT_RULES ==
    [k \in Range(HAIRCUT_RULES_KEYS) |->
        CASE k = "oval" ->
                 [face_shape |-> "oval",
                  recommended |-> <<"most cuts work", "classic taper fade", "side part", "quiff",
                        "textured crop", "slicked back">>,
                  avoid |-> <<"excessive height that further elongates the face",
                        "very tall quiff without side volume">>,
                  notes |-> "Oval is the most versatile face shape for haircuts."]
          [] k = "square" ->
                 [face_shape |-> "square",
                  recommended |-> <<"textured crops", "side parts", "tapered sides with texture on top",
                        "fades with soft top styling", "modern quiff with movement">>,
                  avoid |-> <<"boxy cuts", "bowl cuts", "blunt fringes that emphasise the jaw width",
                        "all-one-length cuts with no fade">>,
                  notes |-> "Soften the angular jaw - avoid anything that adds squareness."]
          [] k = "round" ->
                 [face_shape |-> "round",
                  recommended |-> <<"height on top (pompadour, quiff, faux hawk)",
                        "tight sides (high fade, undercut)",
                        "angular or geometric styling on top", "textured crop with height">>,
                  avoid |-> <<"bowl cuts", "unstyled curtains", "side sweeps without any height",
                        "full volume on sides">>,
                  notes |-> "Add height to elongate; keep sides tight to reduce perceived width."]
          [] k = "oblong" ->
                 [face_shape |-> "oblong",
                  recommended |-> <<"side sweeps", "volume on sides", "medium-length styles with width",
                        "curtains or fringe", "tousled texture at the sides">>,
                  avoid |-> <<"height - elongates the face further",
                        "very short sides with tall top",
                        "slicked-back styles with no side volume">>,
                  notes |-> "Add width, never height - the face is already long."]
          [] k = "heart" ->
                 [face_shape |-> "heart",
                  recommended |-> <<"medium length with soft fringe",
                        "side parts that break forehead width",
                        "styles with volume at the jaw level", "textured mid-length">>,
                  avoid |-> <<"heavy top-heavy volume",
                        "very short sides that emphasise the wide forehead",
                        "high fades with no top coverage">>,
                  notes |-> "Balance wide forehead with volume lower down."]
          [] k = "diamond" ->
                 [face_shape |-> "diamond",
                  recommended |-> <<"styles that maintain width at forehead and jaw",
                        "short to medium length", "textured fringe", "soft side parts">>,
                  avoid |-> <<"narrow side profiles", "very slicked-back styles",
                        "styles that taper at both forehead and jaw simultaneously">>,
                  notes |-> "Keep width visible at forehead and jaw to soften narrow cheekbones."]]

BEARD_RULES_KEYS ==
    <<"oval",
      "square",
      "round",
      "oblong",
      "heart",
      "diamond">>

BEARD_RULES ==
    [k \in Range(BEARD_RULES_KEYS) |->
        CASE k = "oval" ->
                 [face_shape |-> "oval",
                  recommended |-> <<"any style", "classic full beard recommended", "short stubble",
                        "groomed medium beard">>,
                  avoid |-> <<>>,
                  notes |-> "Oval suits all beard styles."]
          [] k = "square" ->
                 [face_shape |-> "square",
                  recommended |-> <<"longer on chin to soften jaw", "cheeks and sides trimmed shorter",
                        "chin-extended goatee", "rounded full beard with longer chin">>,
                  avoid |-> <<"wide full cheek coverage that adds jaw width",
                        "square-cut beard that mirrors the jaw shape">>,
                  notes |-> "Soften the jaw: length on chin, shorter on sides."]
          [] k = "round" ->
                 [face_shape |-> "round",
                  recommended |-> <<"extended chin beard to elongate", "sides kept tight or clean",
                        "short goatee", "chin strap with chin extension">>,
                  avoid |-> <<"full round beard that adds width", "mutton chops",
                        "heavy cheek coverage">>,
                  notes |-> "Elongate the face: length at chin is critical, tight sides."]
          [] k = "oblong" ->
                 [face_shape |-> "oblong",
                  recommended |-> <<"full and wide to add width", "boxed beard",
                        "mutton chops or extended sideburns">>,
                  avoid |-> <<"long chin extension (elongates further)", "narrow chin-only styles">>,
                  notes |-> "Add width, not length. Full beard adds needed width to the face."]
          [] k = "heart" ->
                 [face_shape |-> "heart",
                  recommended |-> <<"fuller chin to balance narrower jaw", "light cheek coverage",
                        "rounded full beard", "extended chin with kept sides">>,
                  avoid |-> <<"bare chin with heavy sideburns",
                        "styles that widen the already-wide forehead area">>,
                  notes |-> "Balance wide forehead with chin fullness."]
          [] k = "diamond" ->
                 [face_shape |-> "diamond",
                  recommended |-> <<"full at jaw", "cheeks clean - avoids width at cheekbones",
                        "chin-focused full beard">>,
                  avoid |-> <<"heavy cheek coverage (widens cheekbones)", "narrow chin-only styles">>,
                  notes |-> "Full jaw and clean cheeks balance the narrow forehead and chin."]]

EYEBROW_RECOMMENDATIONS_KEYS ==
    <<"oval",
      "square",
      "round",
      "oblong",
      "heart",
      "diamond">>

EYEBROW_RECOMMENDATIONS ==
    [k \in Range(EYEBROW_RECOMMENDATIONS_KEYS) |->
        CASE k = "oval" -> "Well-groomed natural arch. Slight angle complements balance."
          [] k = "square" -> "Soft arch to counterbalance the angular jaw. Avoid flat brows."
          [] k = "round" -> "High arch to add vertical length. Avoid flat or round brows."
          [] k = "oblong" -> "Flat to slightly arched - avoids adding more perceived length."
          [] k = "heart" -> "Soft natural arch. Avoid overly thin or heavily shaped brows."
          [] k = "diamond" -> "Curved arch to balance the angular cheekbones."]


(***************************************************************************)
(* Results of calls that may raise                                         *)
(***************************************************************************)

Ret(v) == [raised |-> "none", value |-> v]

Raise(e) == [raised |-> e]

(***************************************************************************)
(* fashion_knowledge/footwear_guide.py functions                           *)
(***************************************************************************)

\* dict.get(key) with the default None
GetOpt(d, key) == IF key \in DOMAIN d THEN Some(d[key]) ELSE Nothing

get_footwear_rules(occ_in) == GetOpt(FOOTWEAR_RULES, Strip(Lower(occ_in)))

is_footwear_appropriate(footwear_type, occ_in) ==
    LET found == get_footwear_rules(occ_in) IN
    IF found.is_none
    THEN Pair(TRUE, "")
    ELSE LET fw == Strip(Lower(footwear_type))
             rules == found.value
         IN
         IF \E i \in 1..Len(rules.forbidden) :
                Contains(rules.forbidden[i], fw) \/ Contains(fw, rules.forbidden[i])
         THEN Pair(FALSE, "'" \o footwear_type \o "' is not appropriate for " \o occ_in
                     \o ". Recommended: " \o Join(Take(rules.allowed, 3), ", ") \o ".")
         ELSE Pair(TRUE, "")

assess_condition(condition) ==
    LET key == Strip(Lower(condition)) IN
    IF key \in DOMAIN CONDITION_RULES
    THEN CONDITION_RULES[key]
    ELSE [condition |-> condition,
          severity |-> "moderate",
          issue |-> "Condition '" \o condition \o "' is unclear - inspect footwear before wearing.",
          shoe_care_note |-> "Inspect and clean or repair as needed."]

(***************************************************************************)
(* fashion_knowledge/fabric_guide.py functions                             *)
(***************************************************************************)

get_fabric(name) == GetOpt(FABRICS, Strip(Lower(name)))

\* a lookup that falls back to formality 0 for a fabric outside the table
FabricFormalityUnknownZero(name) ==
    IF Strip(Lower(name)) \in DOMAIN FABRICS
    THEN FABRICS[Strip(Lower(name))].formality_level ELSE 0

fabric_formality(name) ==
    LET profile == get_fabric(name) IN
    IF ~profile.is_none THEN profile.value.formality_level ELSE 3

fabric_weight(name) ==
    LET profile == get_fabric(name) IN
    IF ~profile.is_none THEN profile.value.weight ELSE "medium"

fabrics_for_occasion(occ_in) ==
    LET occ == Replace(Strip(Lower(occ_in)), " ", "_") IN
    SelectSeq(FABRICS_KEYS, LAMBDA name : InSeq(occ, FABRICS[name].occasions))

(***************************************************************************)
(* fashion_knowledge/seasonal_color.py functions                           *)
(***************************************************************************)

get_seasonal_palette(season) ==
    LET key == Strip(Lower(season)) IN
    IF key \notin DOMAIN SEASONS
    THEN Raise("ValueError")
    ELSE Ret(SEASONS[key])

seasonal_palette_do(season) ==
    LET r == get_seasonal_palette(season) IN
    IF r.raised # "none" THEN r ELSE Ret(r.value.palette_do)

seasonal_palette_avoid(season) ==
    LET r == get_seasonal_palette(season) IN
    IF r.raised # "none" THEN r ELSE Ret(r.value.palette_avoid)

Capitalize(s) ==
    IF s = "" THEN "" ELSE UpperChar(CharAt(s, 1)) \o Lower(SubSeq(s, 2, Len(s)))

MapCapitalize(xs) == [i \in 1..Len(xs) |-> Capitalize(xs[i])]

seasonal_context_string(season) ==
    IF season = "" THEN ""
    ELSE LET r == get_seasonal_palette(season) IN
         IF r.raised = "ValueError" THEN ""
         ELSE LET st == r.value IN
              "Seasonal type: " \o Capitalize(st.season) \o " (" \o st.description \o ")\n"
              \o "  Wear : " \o Join(MapCapitalize(Take(st.palette_do, 8)), "  *  ") \o "\n"
              \o "  Avoid: " \o Join(MapCapitalize(Take(st.palette_avoid, 6)), "  *  ") \o "\n"
              \o "  Fabric finish: " \o Join(st.fabric_finishes, ", ")

(***************************************************************************)
(* fashion_knowledge/style_archetypes.py functions                         *)
(***************************************************************************)

get_archetype(archetype) == GetOpt(ARCHETYPES, Strip(Lower(archetype)))

Bullets(xs) == Join([i \in 1..Len(xs) |-> "    * " \o xs[i]], "\n")

archetype_context_string(archetype) ==
    IF archetype = "" THEN ""
    ELSE LET found == get_archetype(archetype)
             arch == found.value
         IN
         IF found.is_none THEN ""
         ELSE "Archetype: " \o Title(Replace(arch.name, "_", " ")) \o "\n"
              \o "  " \o arch.description \o "\n\n"
              \o "  Color approach : " \o arch.color_approach \o "\n"
              \o "  Fit default    : " \o arch.fit_default \o "\n\n"
              \o "  Upgrade moves:\n" \o Bullets(Take(arch.upgrade_moves, 4)) \o "\n\n"
              \o "  Watch out for:\n" \o Bullets(Take(arch.pitfalls, 3)) \o "\n\n"
              \o "  Reference     : " \o arch.celebrity_reference \o "\n"
              \o "  Grooming      : " \o arch.grooming_alignment

(***************************************************************************)
(* fashion_knowledge/proportion_theory.py functions                        *)
(***************************************************************************)

get_proportion_rules(height, body_shape) ==
    LET key == <<Strip(Lower(height)), Strip(Lower(body_shape))>> IN
    IF key \notin DOMAIN MATRIX
    THEN Raise("ValueError")
    ELSE Ret(MATRIX[key])

proportion_context_string(height, body_shape) ==
    LET r == get_proportion_rules(height, body_shape) IN
    IF r.raised = "ValueError" THEN ""
    ELSE LET rules == r.value IN
         "Goal: " \o rules.visual_goal \o "\n"
         \o "  Do:\n" \o Bullets(rules.do) \o "\n"
         \o "  Avoid:\n" \o Bullets(rules.avoid) \o "\n"
         \o "  Trouser break  : " \o rules.trouser_break \o "\n"
         \o "  Kurta length   : " \o rules.kurta_length \o "\n"
         \o "  Jacket length  : " \o rules.jacket_length \o "\n"
         \o "  Belt use       : " \o rules.belt_use \o "\n"
         \o "  Layer strategy : " \o rules.layer_strategy

pattern_scale_recommendation(build_in, height_in) ==
    LET build == Strip(Lower(build_in))
        height == Strip(Lower(height_in))
    IN IF height = "petite" \/ build \in {"slim", "lean"} THEN "small_print"
       ELSE IF height = "tall" /\ build \in {"broad", "stocky", "athletic"} THEN "large_print"
       ELSE "medium_print"

(***************************************************************************)
(* fashion_knowledge/color_theory.py, body_types.py, grooming_guide.py     *)
(***************************************************************************)

get_palette(undertone) ==
    [undertone |-> undertone, do |-> PALETTES[undertone].do,
     avoid |-> PALETTES[undertone].avoid]

palette_do(undertone) == PALETTES[undertone].do

palette_avoid(undertone) == PALETTES[undertone].avoid

recommended_print_scale(build) ==
    LET b == Strip(Lower(build)) IN
    IF b \in {"slim", "lean", "petite"}
    THEN "small-scale prints only - large patterns overwhelm the frame"
    ELSE IF b \in {"broad", "stocky", "athletic"}
    THEN "medium to large prints work well - avoid micro-prints that read as texture"
    ELSE "medium-scale prints are safest - most proportions work"

get_rules(shape) == RULES[shape]

get_do(shape) == RULES[shape].do

get_avoid(shape) == RULES[shape].avoid

\* haircut rules read from the beard table
HaircutRulesFromBeardTable(face_shape) == BEARD_RULES[face_shape]

get_haircut_rules(face_shape) == HAIRCUT_RULES[face_shape]

get_beard_rules(face_shape) == BEARD_RULES[face_shape]

get_eyebrow_recommendation(face_shape) == EYEBROW_RECOMMENDATIONS[face_shape]

score_beard_grooming(grooming_quality) ==
    LET mapping == [g \in {"well groomed", "average", "unkempt", "not applicable"} |->
                       CASE g = "well groomed" -> 9 [] g = "average" -> 6
                         [] g = "unkempt" -> 3 [] g = "not applicable" -> 8]
    IN Get(mapping, Strip(Lower(grooming_quality)), 5)

(***************************************************************************)
(* fashion_knowledge/accessory_guide.py                                    *)
(***************************************************************************)

FORMALITY_LEVELS ==
    [o \in {"gym", "beach", "casual", "streetwear", "travel", "smart casual", "party",
            "business casual", "western formal", "indian formal", "wedding guest indian",
            "indian casual", "ethnic fusion", "festival", "lounge"} |->
        CASE o \in {"gym", "beach"} -> 1
          [] o \in {"casual", "streetwear", "travel", "indian casual", "festival", "lounge"} -> 2
          [] o \in {"smart casual", "party", "ethnic fusion"} -> 3
          [] o = "business casual" -> 4
          [] o \in {"western formal", "indian formal", "wedding guest indian"} -> 5]

FORMAL_OCCASIONS == {k \in DOMAIN FORMALITY_LEVELS : FORMALITY_LEVELS[k] >= 4}

CASUAL_OCCASIONS == {k \in DOMAIN FORMALITY_LEVELS : FORMALITY_LEVELS[k] <= 2}

watch_strap_appropriate(strap_material, occ_in) ==
    LET occ == Replace(Strip(Lower(occ_in)), "_", " ")
        strap == Strip(Lower(strap_material))
        is_formal == occ \in FORMAL_OCCASIONS \/ Get(FORMALITY_LEVELS, occ, 3) >= 4
        rubber_straps == {"rubber", "silicone", "sport strap", "rubber strap"}
        plastic_watch == {"plastic", "plastic case", "casio plastic"}
    IN IF is_formal /\ (\E p \in plastic_watch : Contains(p, strap))
       THEN Pair(FALSE, "Plastic or Casio-style watch is never appropriate for formal occasions")
       ELSE IF is_formal /\ (\E r \in rubber_straps : Contains(r, strap))
       THEN Pair(FALSE, "Rubber/sport strap signals casual energy - swap to leather strap "
                   \o "(tan, black, or dark brown) or simple metal bracelet for " \o occ)
       ELSE Pair(TRUE, "")

\* a matcher that asks for the same colour string
BeltShoeExactMatch(belt_color, shoe_color) ==
    IF Strip(Lower(belt_color)) = Strip(Lower(shoe_color))
    THEN Pair(TRUE, "")
    ELSE Pair(FALSE, "Belt (" \o belt_color \o ") should match shoes - detected " \o shoe_color)

belt_shoe_match(belt_color, shoe_color) ==
    LET b == Strip(Lower(belt_color))
        s == Strip(Lower(shoe_color))
        black_family == {"black", "dark black", "charcoal"}
        brown_family == {"brown", "tan", "cognac", "dark brown", "light brown",
                         "caramel", "chestnut"}
    IN IF \E c \in black_family : Contains(c, b)
       THEN IF ~(\E c \in black_family : Contains(c, s))
            THEN Pair(FALSE, "Black belt should pair with black shoes - detected " \o shoe_color)
            ELSE Pair(TRUE, "")
       ELSE IF \E c \in brown_family : Contains(c, b)
       THEN IF ~(\E c \in brown_family : Contains(c, s))
            THEN Pair(FALSE, "Brown-family belt (" \o belt_color
                        \o ") should pair with brown/tan/cognac shoes - detected " \o shoe_color)
            ELSE Pair(TRUE, "")
       ELSE Pair(TRUE, "")

belt_appropriate_with_garment(garment_type) ==
    LET no_belt_garments == {"sherwani", "bandhgala", "formal kurta", "achkan", "angrakha"}
        g == Strip(Lower(garment_type))
    IN IF \E ng \in no_belt_garments : Contains(ng, g)
       THEN Pair(FALSE, "Never wear a belt with " \o garment_type
                   \o " - these garments have self-closing silhouettes and belts disrupt the drape")
       ELSE Pair(TRUE, "")

rings_appropriate(ring_count, occ_in) ==
    IF ring_count > 2
    THEN Pair(FALSE, "More than 2 rings visible across both hands - reduces visual "
                \o "intentionality. Edit to maximum 2 for " \o occ_in \o ".")
    ELSE Pair(TRUE, "")

\* a bag matcher that turns backpacks down without saying why
BagAppropriateNoReason(bag_type, occ_in) ==
    Pair(~Contains("backpack", Strip(Lower(bag_type))), "")

bag_appropriate(bag_type, occ_in) ==
    LET occ == Replace(Strip(Lower(occ_in)), "_", " ")
        bag == Strip(Lower(bag_type))
        backpack_ok == {"casual", "travel", "streetwear", "business casual", "gym", "beach"}
        jhola_ok == {"indian casual", "casual", "festival", "ethnic fusion"}
    IN IF Contains("backpack", bag)
       THEN IF occ \notin backpack_ok /\ Get(FORMALITY_LEVELS, occ, 3) >= 4
            THEN Pair(FALSE, "Backpack is casual/travel only - never with formal or ethnic "
                        \o "formal. Swap to structured tote or clutch.")
            ELSE Pair(TRUE, "")
       ELSE IF Contains("jhola", bag) \/ Contains("cloth bag", bag)
       THEN IF occ \notin jhola_ok
            THEN Pair(FALSE, "Jhola/cloth bag suits casual ethnic only - not appropriate for "
                        \o occ)
            ELSE Pair(TRUE, "")
       ELSE Pair(TRUE, "")

suggest_missing_accessories(occ_in, detected_types) ==
    LET occ == Replace(Strip(Lower(occ_in)), "_", " ")
        detected == {Lower(detected_types[i]) : i \in 1..Len(detected_types)}
    IN (IF (Contains("western formal", occ) \/ Contains("business", occ))
           /\ "pocket square" \notin detected
        THEN <<"Pocket square - adds intentionality to a formal jacket">> ELSE <<>>)
       \o
       (IF (Contains("western formal", occ) \/ Contains("business", occ))
           /\ "watch" \notin detected
        THEN <<"Dress watch with leather strap - anchors the formal look">> ELSE <<>>)
       \o
       (IF (Contains("indian formal", occ) \/ Contains("wedding", occ))
           /\ "watch" \notin detected
        THEN <<"Simple metal bracelet or dress watch on tan leather strap">> ELSE <<>>)
       \o
       (IF (Contains("party", occ) \/ Contains("smart casual", occ))
           /\ "watch" \notin detected
        THEN <<"Watch - even a minimal piece elevates smart casual">> ELSE <<>>)


(***************************************************************************)
(* models/remark.py                                                        *)
(***************************************************************************)

RemarkCategory ==
    {"color", "fit", "fabric", "occasion", "proportion", "accessory", "footwear",
     "grooming_hair", "grooming_beard", "grooming_skin", "layering", "pattern",
     "length", "condition", "posture"}

Remark(severity, category, body_zone, element, issue, fix, why, priority_order) ==
    [severity |-> severity, category |-> category, body_zone |-> body_zone,
     element |-> element, issue |-> issue, fix |-> fix, why |-> why,
     priority_order |-> priority_order]

(***************************************************************************)
(* The `remarks` list and the `order` counter of one rule-based pass.      *)
(* Emit is `remarks.append(Remark(..., priority_order=order)); order += 1` *)
(* guarded by the pass's condition.                                        *)
(***************************************************************************)

\* a pass whose counter outlives the call: it resumes after the remarks the
\* outfit pass left behind
NewPassResumed ==
    [remarks |-> <<>>,
     order |-> IF rule_remarks.outfit.is_none THEN 1
               ELSE Len(rule_remarks.outfit.value) + 1]

NewPass == [remarks |-> <<>>, order |-> 1]

\* a pass that numbers every remark with the order it started with
EmitUnnumbered(st, cond, severity, category, body_zone, element, issue, fix, why) ==
    IF cond
    THEN [remarks |-> Append(st.remarks,
                             Remark(severity, category, body_zone, element,
                                    issue, fix, why, st.order)),
          order |-> st.order]
    ELSE st

\* an append that does not look at the pass's condition
EmitAlways(st, cond, severity, category, body_zone, element, issue, fix, why) ==
    [remarks |-> Append(st.remarks,
                        Remark(severity, category, body_zone, element, issue, fix, why,
                               st.order)),
     order |-> st.order + 1]

Emit(st, cond, severity, category, body_zone, element, issue, fix, why) ==
    IF cond
    THEN [remarks |-> Append(st.remarks,
                        Remark(severity, category, body_zone, element, issue, fix, why,
                               st.order)),
          order |-> st.order + 1]
    ELSE st

\* the same append without the trailing `order += 1`
EmitLast(st, cond, severity, category, body_zone, element, issue, fix, why) ==
    IF cond
    THEN [remarks |-> Append(st.remarks,
                        Remark(severity, category, body_zone, element, issue, fix, why,
                               st.order)),
          order |-> st.order]
    ELSE st

(***************************************************************************)
(* agents/recommendation_agent.py : rule-based passes                      *)
(***************************************************************************)

is_indian_occasion(occ_in) ==
    \E k \in {"indian", "ethnic", "fusion", "wedding_guest", "festival"} :
        Contains(k, Lower(occ_in))

is_western_occasion(occ_in) ==
    \E k \in {"western", "business", "streetwear", "smart_casual", "party",
              "office", "gym", "travel", "beach", "lounge"} :
        Contains(k, Lower(occ_in))

GarmentBodyZone(garment) ==
    IF garment.category \in {"top", "ethnic-top", "outerwear", "layer", "inner", "full-garment"}
    THEN "upper-body" ELSE "lower-body"

\* `ok, issue = matcher(...)` / `if not ok and issue:` / append, with the
\* matcher's reason as the remark's issue and `fix`
EmitReason(st, res, severity, category, body_zone, element, fix, why) ==
    Emit(st, ~res.ok /\ res.reason # "", severity, category, body_zone, element,
         res.reason, fix, why)

\* the same with the reason as both `issue` and `fix`
EmitReasonTwice(st, res, severity, category, body_zone, element, why) ==
    Emit(st, ~res.ok /\ res.reason # "", severity, category, body_zone, element,
         res.reason, res.reason, why)

\* body of `for garment in outfit_breakdown.items` for one garment
GarmentRemarks(st, garment, body_zone, indian, western, up, occ_in) ==
    EmitReasonTwice(
      EmitReasonTwice(
        EmitReason(
          Emit(st, ~garment.occasion_appropriate /\ garment.issue # "",
               "moderate", "fabric", body_zone, garment.garment_type,
               garment.issue, garment.fix,
               "Each garment must match the occasion's fabric and formality expectations."),
          \* fabric appropriateness for Indian occasions
          IF indian /\ garment.fabric_estimate # ""
          THEN fabric_appropriate_for_occasion(garment.fabric_estimate, occ_in)
          ELSE Pair(TRUE, ""),
          "moderate", "fabric", body_zone, garment.garment_type,
          "Upgrade to chanderi, silk-cotton blend, or raw silk for this occasion.",
          "Fabric weight signals formality in Indian wear as much as the silhouette."),
        \* Indian collar vs face shape
        IF indian /\ garment.collar_type \notin {"n/a", "", "none"}
        THEN indian_collar_face_compatible(garment.collar_type, up.face_shape)
        ELSE Pair(TRUE, ""),
        "minor", "fit", "neck", garment.collar_type \o " collar",
        "Collar shape frames the face - the wrong choice emphasises unflattering proportions."),
      \* Western collar vs face shape
      IF western /\ garment.collar_type \notin {"n/a", "", "none"}
      THEN western_collar_face_compatible(garment.collar_type, up.face_shape)
      ELSE Pair(TRUE, ""),
      "minor", "fit", "neck", garment.collar_type \o " collar",
      "Collar shape frames the face - the wrong choice emphasises unflattering proportions.")

RECURSIVE GarmentLoop(_, _, _, _, _, _, _)
GarmentLoop(st, items, i, indian, western, up, occ_in) ==
    IF i > Len(items) THEN st
    ELSE GarmentLoop(GarmentRemarks(st, items[i], GarmentBodyZone(items[i]),
                                    indian, western, up, occ_in),
                     items, i + 1, indian, western, up, occ_in)

\* kurta length vs height + body shape (Indian occasions)
KurtaLengthRemark(st, indian, tops, length_rec) ==
    Emit(st, indian /\ tops # <<>>
             /\ tops[1].length # "" /\ Contains("hip", Lower(tops[1].length))
             /\ Contains("mid-thigh", Lower(length_rec)),
         "moderate", "length", "upper-body",
         IF tops # <<>> THEN tops[1].garment_type ELSE "",
         "Hip-length kurta cuts the silhouette at the widest point for your proportions.",
         length_rec,
         "Kurta length dramatically affects perceived body proportions - longer hem elongates.")

\* trouser break (Western occasions)
TrouserBreakRemark(st, western, trousers, break_rec) ==
    Emit(st, western /\ trousers # <<>>
             /\ trousers[1].length # ""
             /\ Contains("full break", Lower(trousers[1].length)),
         "minor", "length", "lower-body",
         IF trousers # <<>> THEN trousers[1].garment_type ELSE "",
         "Full trouser break is excessive for your height.",
         break_rec,
         "Trouser break affects the leg line - too much break shortens and puddles.")

\* a loop over every issue of the layering check, without the `[:1]`
RECURSIVE LayeringRemarkEach(_, _)
LayeringRemarkEach(st, layer_issues) ==
    IF layer_issues = <<>> THEN st
    ELSE LayeringRemarkEach(
             Emit(st, TRUE,
                  "minor", "layering", "upper-body", "layering",
                  layer_issues[1],
                  "Ensure outer layer is heavier fabric than base; outer fit should be slightly more relaxed.",
                  "Layering should taper inward - base slimmest, outer most relaxed."),
             Tail(layer_issues))

\* layering validation (Western occasions); `for issue_str in layer_issues[:1]`
LayeringRemark(st, layer_issues) ==
    Emit(st, Take(layer_issues, 1) # <<>>,
         "minor", "layering", "upper-body", "layering",
         IF layer_issues # <<>> THEN layer_issues[1] ELSE "",
         "Ensure outer layer is heavier fabric than base; outer fit should be slightly more relaxed.",
         "Layering should taper inward - base slimmest, outer most relaxed.")

LayerIssues(western, layers, bases) ==
    IF western /\ layers # <<>> /\ bases # <<>>
    THEN validate_layering(bases[1].fabric_estimate, layers[1].fabric_estimate,
                           bases[1].fit, layers[1].fit)
    ELSE <<>>

\* trouser-shoe pairing (Western occasions, footwear visible)
TrouserShoe(western, fw, trousers) ==
    IF western /\ fw.visible /\ trousers # <<>>
    THEN trouser_shoe_appropriate(trousers[1].fit, fw.type)
    ELSE Pair(TRUE, "")

TrouserShoeRemark(st, res, fw) ==
    EmitReasonTwice(st, res, "minor", "footwear", "feet", fw.type,
               "Trouser fit and shoe silhouette must harmonise - the wrong pairing breaks the leg line.")

\* _build_outfit_remarks after the colour-clash and occasion checks
OutfitChecks(st, up, ob, occ_in, indian, western, tops, trousers, layers, bases) ==
    TrouserShoeRemark(
      LayeringRemark(
        TrouserBreakRemark(
          KurtaLengthRemark(
            GarmentLoop(st, ob.items, 1, indian, western, up, occ_in),
            indian, tops,
            kurta_length_recommendation(up.height_estimate, up.body_shape)),
          western, trousers, trouser_break(up.height_estimate)),
        LayerIssues(western, layers, bases)),
      TrouserShoe(western, ob.footwear_analysis, trousers),
      ob.footwear_analysis).remarks

_build_outfit_remarks(up, ob, occ_in) ==
    OutfitChecks(
      Emit(
        Emit(NewPass, ob.color_clash_detected,
             "critical", "color", "full-look", "colour palette",
             "Colour clash detected: " \o ob.overall_color_harmony,
             "Switch to colours from your palette: "
                 \o Join(Take(palette_do(up.skin_undertone), 4), ", "),
             "Clashing colours create visual noise and undermine the overall look."),
        ~ob.occasion_match,
        "critical", "occasion", "full-look", "outfit",
        "Outfit is dressed for " \o ob.occasion_detected
            \o " - occasion requires " \o occ_in,
        "Upgrade garments to match the occasion's formality and dress code.",
        "Occasion mismatch signals a lack of awareness of dress codes."),
      up, ob, occ_in, is_indian_occasion(occ_in), is_western_occasion(occ_in),
      SelectSeq(ob.items, LAMBDA g : g.category \in {"top", "ethnic-top", "full-garment"}),
      SelectSeq(ob.items, LAMBDA g : g.category \in {"bottom", "ethnic-bottom"}),
      SelectSeq(ob.items, LAMBDA g : g.category \in {"outerwear", "layer"}),
      SelectSeq(ob.items, LAMBDA g : g.category \in {"top", "inner"}))

FootwearChecks(fw, condition_assessment) ==
    EmitLast(
      Emit(NewPass, condition_assessment.severity # "none",
           condition_assessment.severity, "condition", "feet", fw.type,
           condition_assessment.issue, condition_assessment.shoe_care_note,
           "Shoe condition is noticed immediately - it anchors or undermines everything."),
      fw.issue # "",
      "moderate", "footwear", "feet", fw.type,
      fw.issue, fw.recommended_instead,
      "Footwear must speak the same style language as the garment.").remarks

_build_footwear_remarks(ob, occ_in) ==
    IF ~ob.footwear_analysis.visible THEN <<>>
    ELSE FootwearChecks(ob.footwear_analysis,
                        assess_condition(ob.footwear_analysis.condition))

RECURSIVE AccessoryLoop(_, _, _)
AccessoryLoop(st, items, i) ==
    IF i > Len(items) THEN st
    ELSE AccessoryLoop(
             Emit(st, ~items[i].occasion_appropriate /\ items[i].issue # "",
                  "moderate", "accessory", "upper-body", items[i].type,
                  items[i].issue, items[i].fix,
                  "Accessories signal the formality level of an entire look."),
             items, i + 1)

RECURSIVE MissingLoop(_, _, _)
MissingLoop(st, suggestions, i) ==
    IF i > Len(suggestions) THEN st
    ELSE MissingLoop(
             Emit(st, TRUE,
                  "minor", "accessory", "full-look", "missing accessory",
                  "Key accessory absent for this occasion", suggestions[i],
                  "The right accessory elevates a good outfit to a complete look."),
             suggestions, i + 1)

DetectedTypes(items) == [i \in 1..Len(items) |-> items[i].type]

_build_accessory_remarks(up, ob, occ_in) ==
    MissingLoop(AccessoryLoop(NewPass, ob.accessory_analysis.items_detected, 1),
                \* for suggestion in suggestions[:2]
                Take(suggest_missing_accessories(
                         occ_in, DetectedTypes(ob.accessory_analysis.items_detected)), 2),
                1).remarks

(***************************************************************************)
(* agents/grooming_agent.py : rule-based grooming pass                     *)
(***************************************************************************)

_build_grooming_remarks(up, haircut_rules, beard_rules, grooming_score) ==
    Emit(
      Emit(NewPass, up.beard_grooming_quality = "unkempt",
           "moderate", "grooming_beard", "face", "beard",
           "Beard is unkempt - needs grooming before next public appearance",
           "Trim, shape, and moisturise beard. Use a beard comb.",
           "Grooming quality affects overall perceived effort and professionalism."),
      grooming_score <= 4,
      "moderate", "grooming_hair", "head", "hair",
      "Hair appears unmaintained - a fresh cut would significantly elevate the look",
      "Book a haircut this week. Ask for: "
          \o (IF haircut_rules.recommended # <<>>
              THEN haircut_rules.recommended[1]
              ELSE "a style suited to your face shape"),
      "Hair is the most noticed grooming element after the face.").remarks

(***************************************************************************)
(* Parsed JSON values (what parse_json_response returns) and the Python    *)
(* operations the agents apply to them.  Each JSON type keeps its payload  *)
(* under its own field name.                                               *)
(***************************************************************************)

JNull == [t |-> "null"]

JBool(b) == [t |-> "bool", b |-> b]

JNum(n) == [t |-> "number", n |-> n]

JStr(s) == [t |-> "string", s |-> s]

JArr(xs) == [t |-> "array", a |-> xs]

\* a JSON object: f is a function from its keys to JSON values
JObj(f) == [t |-> "object", o |-> f]

EmptyDict == [k \in {} |-> JNull]

Digits ==
    [c \in {"0","1","2","3","4","5","6","7","8","9"} |->
        CASE c = "0" -> 0 [] c = "1" -> 1 [] c = "2" -> 2 [] c = "3" -> 3 [] c = "4" -> 4
          [] c = "5" -> 5 [] c = "6" -> 6 [] c = "7" -> 7 [] c = "8" -> 8 [] c = "9" -> 9]

RECURSIVE DigitsValue(_, _, _)
DigitsValue(s, i, acc) ==
    IF i > Len(s) THEN acc
    ELSE DigitsValue(s, i + 1, 10 * acc + Digits[CharAt(s, i)])

ParseDigits(sign, body) ==
    IF body # "" /\ \A i \in 1..Len(body) : CharAt(body, i) \in DOMAIN Digits
    THEN Ret(sign * DigitsValue(body, 1, 0))
    ELSE Raise("ValueError")

ParseStripped(st) ==
    IF Len(st) >= 1 /\ CharAt(st, 1) = "-" THEN ParseDigits(0 - 1, SubSeq(st, 2, Len(st)))
    ELSE IF Len(st) >= 1 /\ CharAt(st, 1) = "+" THEN ParseDigits(1, SubSeq(st, 2, Len(st)))
    ELSE ParseDigits(1, st)

\* int(s) for a str: surrounding whitespace and one sign are accepted
ParseInt(s) == ParseStripped(Strip(s))

\* int(x)
PyInt(j) ==
    CASE j.t = "number" -> Ret(j.n)
      [] j.t = "bool"   -> Ret(IF j.b THEN 1 ELSE 0)
      [] j.t = "string" -> ParseInt(j.s)
      [] OTHER          -> Raise("TypeError")

\* bool(x)
Truthy(j) ==
    CASE j.t = "null"   -> FALSE
      [] j.t = "bool"   -> j.b
      [] j.t = "number" -> j.n # 0
      [] j.t = "string" -> j.s # ""
      [] j.t = "array"  -> j.a # <<>>
      [] OTHER          -> DOMAIN j.o # {}

\* a strict `str` field of a pydantic model accepts only a str
IsStr(j) == j.t = "string"

\* a strict `list[str]` field
IsStrList(j) == j.t = "array" /\ \A i \in 1..Len(j.a) : j.a[i].t = "string"

StrList(xs) == JArr([i \in 1..Len(xs) |-> JStr(xs[i])])

Unwrap(j) == [i \in 1..Len(j.a) |-> j.a[i].s]

\* a strict str field from its JSON value
AsStr(j) == IF IsStr(j) THEN Ret(j.s) ELSE Raise("ValidationError")

\* a strict list[str] field from its JSON value
AsStrList(j) == IF IsStrList(j) THEN Ret(Unwrap(j)) ELSE Raise("ValidationError")

\* `value or None` for an Optional[str] field
AsOptionalStr(j) ==
    IF ~Truthy(j) THEN Ret(Nothing)
    ELSE IF IsStr(j) THEN Ret(Some(j.s)) ELSE Raise("ValidationError")

\* data.get(key, default) for a strict str field
StrField(data, key, default) == AsStr(Get(data, key, JStr(default)))

\* data.get(key, default) for a strict list[str] field
StrListField(data, key, default) == AsStrList(Get(data, key, StrList(default)))

\* `data.get(key) or None` for an Optional[str] field
OptionalStrField(data, key) == AsOptionalStr(Get(data, key, JNull))

\* the first exception among the evaluated arguments, or "none"
RECURSIVE FirstRaised(_, _)
FirstRaised(results, i) ==
    IF i > Len(results) THEN "none"
    ELSE IF results[i].raised # "none" THEN results[i].raised
    ELSE FirstRaised(results, i + 1)

\* isinstance(exc, cls) for the exception classes the agents meet;
\* pydantic's ValidationError derives from ValueError
IsInstance(exc, cls) ==
    \/ exc = cls
    \/ cls = "Exception"
    \/ exc = "ValidationError" /\ cls = "ValueError"

\* sorted(remarks, key=lambda r: r.priority_order): stable insertion sort
RECURSIVE InsertByPriority(_, _)
InsertByPriority(sorted, r) ==
    IF sorted = <<>> THEN <<r>>
    ELSE IF sorted[Len(sorted)].priority_order <= r.priority_order
    THEN Append(sorted, r)
    ELSE Append(InsertByPriority(SubSeq(sorted, 1, Len(sorted) - 1), r), sorted[Len(sorted)])

RECURSIVE SortedFrom(_, _, _)
SortedFrom(xs, i, acc) ==
    IF i > Len(xs) THEN acc ELSE SortedFrom(xs, i + 1, InsertByPriority(acc, xs[i]))

SortedByPriority(xs) == SortedFrom(xs, 1, <<>>)

(***************************************************************************)
(* Remark(...) built from one raw entry of an API response, as both        *)
(* agents do it: the keyword arguments are evaluated in order, so the      *)
(* first failing one decides the exception.                                *)
(***************************************************************************)

RemarkFromFields(severity, category, body_zone, element, issue, fix, why, priority_order) ==
    IF ~(category.t = "string" /\ category.s \in RemarkCategory)
    THEN Raise("ValueError")                         \* RemarkCategory(value)
    ELSE IF priority_order.raised # "none" THEN priority_order   \* int(...)
    ELSE IF ~(IsStr(severity) /\ IsStr(body_zone) /\ IsStr(element)
              /\ IsStr(issue) /\ IsStr(fix) /\ IsStr(why))
    THEN Raise("ValidationError")
    ELSE Ret(Remark(severity.s, category.s, body_zone.s, element.s,
                    issue.s, fix.s, why.s, priority_order.value))

RemarkFromEntry(r, default_category, default_body_zone, default_element) ==
    IF r.t # "object" THEN Raise("AttributeError")      \* r.get on a non-dict
    ELSE RemarkFromFields(Get(r.o, "severity", JStr("minor")),
                          Get(r.o, "category", JStr(default_category)),
                          Get(r.o, "body_zone", JStr(default_body_zone)),
                          Get(r.o, "element", JStr(default_element)),
                          Get(r.o, "issue", JStr("")),
                          Get(r.o, "fix", JStr("")),
                          Get(r.o, "why", JStr("")),
                          PyInt(Get(r.o, "priority_order", JNum(99))))

\* `for r in raw_list: try: parsed.append(Remark(...)) except (ValueError, KeyError): pass`
RECURSIVE ParseEntries(_, _, _, _, _, _)
RECURSIVE ParseEntry(_, _, _, _, _, _, _)
ParseEntry(one, entries, i, parsed, default_category, default_body_zone, default_element) ==
    IF one.raised = "none"
    THEN ParseEntries(entries, i + 1, Append(parsed, one.value),
                      default_category, default_body_zone, default_element)
    ELSE IF IsInstance(one.raised, "ValueError") \/ IsInstance(one.raised, "KeyError")
    THEN ParseEntries(entries, i + 1, parsed,
                      default_category, default_body_zone, default_element)
    ELSE one

ParseEntries(entries, i, parsed, default_category, default_body_zone, default_element) ==
    IF i > Len(entries) THEN Ret(parsed)
    ELSE ParseEntry(RemarkFromEntry(entries[i], default_category,
                                    default_body_zone, default_element),
                    entries, i, parsed, default_category, default_body_zone, default_element)

\* iteration over whatever the response holds under a remark-list key
IterateRemarks(raw_list, default_category, default_body_zone, default_element) ==
    CASE raw_list.t = "array" ->
             ParseEntries(raw_list.a, 1, <<>>, default_category,
                          default_body_zone, default_element)
      [] raw_list.t = "string" ->        \* iterates characters; str has no .get
             IF raw_list.s = "" THEN Ret(<<>>) ELSE Raise("AttributeError")
      [] raw_list.t = "object" ->        \* iterates keys
             IF DOMAIN raw_list.o = {} THEN Ret(<<>>) ELSE Raise("AttributeError")
      [] OTHER -> Raise("TypeError")     \* not iterable

(***************************************************************************)
(* agents/vision_agent.py : the OutfitBreakdown built from the vision      *)
(* collaborator's parsed answer.  Fields the recommendation core never     *)
(* reads (colour, pattern, sleeve, material, ...) are left out.            *)
(***************************************************************************)

AccessoryType ==
    {"watch", "ring", "bracelet", "necklace", "chain", "pendant", "belt", "bag",
     "sunglasses", "hat", "cap", "turban", "pagdi", "pocket_square", "tie",
     "tie_pin", "cufflinks", "earring"}

GarmentItem(category, garment_type, fabric_estimate, fit, length, collar_type, occasion_appropriate, issue, fix) ==
    IF FirstRaised(<<category, garment_type, fabric_estimate, fit, length,
                     collar_type, issue, fix>>, 1) # "none"
    THEN Raise("ValidationError")
    ELSE Ret([category |-> category.value, garment_type |-> garment_type.value,
              fabric_estimate |-> fabric_estimate.value, fit |-> fit.value,
              length |-> length.value, collar_type |-> collar_type.value,
              occasion_appropriate |-> occasion_appropriate,
              issue |-> issue.value, fix |-> fix.value])

_build_garment(g) ==
    IF g.t # "object" THEN Raise("AttributeError")
    ELSE GarmentItem(StrField(g.o, "category", "top"),
                     StrField(g.o, "garment_type", "unknown"),
                     StrField(g.o, "fabric_estimate", "unknown"),
                     StrField(g.o, "fit", "regular"),
                     StrField(g.o, "length", "unknown"),
                     StrField(g.o, "collar_type", "n/a"),
                     Truthy(Get(g.o, "occasion_appropriate", JBool(TRUE))),
                     StrField(g.o, "issue", ""),
                     StrField(g.o, "fix", ""))

AccessoryItem(raw_type, occasion_appropriate, issue, fix) ==
    IF FirstRaised(<<issue, fix>>, 1) # "none" THEN Raise("ValidationError")
    ELSE Ret([type |-> \* AccessoryType(...) / except ValueError: AccessoryType.WATCH
                       IF raw_type.t = "string" /\ raw_type.s \in AccessoryType
                       THEN raw_type.s ELSE "watch",
              occasion_appropriate |-> occasion_appropriate,
              issue |-> issue.value, fix |-> fix.value])

_build_accessory_item(item_data) ==
    IF item_data.t # "object" THEN Raise("AttributeError")
    ELSE AccessoryItem(Get(item_data.o, "type", JStr("watch")),
                       Truthy(Get(item_data.o, "occasion_appropriate", JBool(TRUE))),
                       StrField(item_data.o, "issue", ""),
                       StrField(item_data.o, "fix", ""))

\* [build(x) for x in xs]: the first exception ends the comprehension
RECURSIVE BuildAll(_, _, _, _)
RECURSIVE BuildNext(_, _, _, _, _)
BuildNext(one, which, xs, i, acc) ==
    IF one.raised # "none" THEN one
    ELSE BuildAll(which, xs, i + 1, Append(acc, one.value))

BuildAll(which, xs, i, acc) ==
    IF i > Len(xs) THEN Ret(acc)
    ELSE BuildNext(IF which = "garment" THEN _build_garment(xs[i])
                   ELSE _build_accessory_item(xs[i]),
                   which, xs, i, acc)

\* iterating data.get(key, []) with a builder
BuildList(which, raw_items) ==
    IF raw_items.t # "array" THEN Raise("TypeError")
    ELSE BuildAll(which, raw_items.a, 1, <<>>)

AccessoryAnalysis(items, overall_score) ==
    IF items.raised # "none" THEN items
    ELSE IF overall_score.raised # "none" THEN overall_score
    ELSE Ret([items_detected |-> items.value, overall_score |-> overall_score.value])

_build_accessory_analysis(data) ==
    IF data.t # "object" THEN Raise("AttributeError")
    ELSE AccessoryAnalysis(BuildList("accessory", Get(data.o, "items_detected", JArr(<<>>))),
                           PyInt(Get(data.o, "overall_score", JNum(5))))

FootwearAnalysis(visible, type, condition, occasion_match, outfit_match, issue, recommended_instead) ==
    IF FirstRaised(<<type, condition, issue, recommended_instead>>, 1) # "none"
    THEN Raise("ValidationError")
    ELSE Ret([visible |-> visible, type |-> type.value, condition |-> condition.value,
              occasion_match |-> occasion_match, outfit_match |-> outfit_match,
              issue |-> issue.value, recommended_instead |-> recommended_instead.value])

_build_footwear_analysis(data) ==
    IF data.t # "object" THEN Raise("AttributeError")
    ELSE FootwearAnalysis(Truthy(Get(data.o, "visible", JBool(FALSE))),
                          StrField(data.o, "type", ""),
                          StrField(data.o, "condition", ""),
                          Truthy(Get(data.o, "occasion_match", JBool(FALSE))),
                          Truthy(Get(data.o, "outfit_match", JBool(FALSE))),
                          StrField(data.o, "issue", ""),
                          StrField(data.o, "recommended_instead", ""))

OutfitBreakdown(items, accessory_analysis, footwear_analysis, occasion_detected, occasion_match, overall_color_harmony, color_clash_detected, outfit_score) ==
    IF items.raised # "none" THEN items
    ELSE IF accessory_analysis.raised # "none" THEN accessory_analysis
    ELSE IF footwear_analysis.raised # "none" THEN footwear_analysis
    ELSE IF outfit_score.raised # "none" THEN outfit_score
    ELSE IF FirstRaised(<<occasion_detected, overall_color_harmony>>, 1) # "none"
    THEN Raise("ValidationError")
    ELSE Ret([occasion_detected |-> occasion_detected.value,
              occasion_match |-> occasion_match,
              items |-> items.value,
              accessory_analysis |-> accessory_analysis.value,
              footwear_analysis |-> footwear_analysis.value,
              overall_color_harmony |-> overall_color_harmony.value,
              color_clash_detected |-> color_clash_detected,
              outfit_score |-> outfit_score.value])

_build_outfit_breakdown(data) ==
    IF data.t # "object" THEN Raise("AttributeError")
    ELSE OutfitBreakdown(
             BuildList("garment", Get(data.o, "items", JArr(<<>>))),
             _build_accessory_analysis(Get(data.o, "accessory_analysis", JObj(EmptyDict))),
             _build_footwear_analysis(Get(data.o, "footwear_analysis", JObj(EmptyDict))),
             StrField(data.o, "occasion_detected", "unknown"),
             Truthy(Get(data.o, "occasion_match", JBool(FALSE))),
             StrField(data.o, "overall_color_harmony", ""),
             Truthy(Get(data.o, "color_clash_detected", JBool(FALSE))),
             PyInt(Get(data.o, "outfit_score", JNum(5))))

\* analyse_outfit: call_vision, parse_json_response, _build_outfit_breakdown;
\* `response` is Raise(exc) when the call or the parse raised
analyse_outfit(response) ==
    IF response.raised # "none"
    THEN Raise(IF response.raised = "ValueError" THEN "ValueError" ELSE "RuntimeError")
    ELSE _build_outfit_breakdown(response.value)

(***************************************************************************)
(* agents/grooming_agent.py.  `response` is what call_text followed by     *)
(* parse_json_response gave: Raise(exc) or Ret(parsed JSON).  The profile  *)
(* keeps the fields the recommendation core reads or copies.               *)
(***************************************************************************)

GroomingProfile(recommended_haircut, haircut_to_avoid, recommended_beard_style, beard_grooming_tips, beard_style_to_avoid, eyebrow_recommendation, grooming_score, grooming_remarks) ==
    IF grooming_score.raised # "none" THEN grooming_score          \* int(...)
    ELSE IF FirstRaised(<<recommended_haircut, haircut_to_avoid, recommended_beard_style,
                          beard_grooming_tips, beard_style_to_avoid,
                          eyebrow_recommendation>>, 1) # "none"
    THEN Raise("ValidationError")
    ELSE Ret([recommended_haircut |-> recommended_haircut.value,
              haircut_to_avoid |-> haircut_to_avoid.value,
              recommended_beard_style |-> recommended_beard_style.value,
              beard_grooming_tips |-> beard_grooming_tips.value,
              beard_style_to_avoid |-> beard_style_to_avoid.value,
              eyebrow_recommendation |-> eyebrow_recommendation.value,
              grooming_score |-> grooming_score.value,
              grooming_remarks |-> grooming_remarks])

\* remarks = api_remarks if api_remarks else grooming_remarks
ApiOrRuleRemarks(api_remarks, grooming_remarks) ==
    IF api_remarks # <<>> THEN api_remarks ELSE grooming_remarks

EnrichedGroomingProfile(data, api_remarks, recommended_haircut, haircut_to_avoid, recommended_beard, beard_to_avoid, eyebrow_rec, grooming_score, grooming_remarks) ==
    IF api_remarks.raised # "none" THEN api_remarks
    ELSE GroomingProfile(StrField(data, "recommended_haircut", recommended_haircut),
                         StrField(data, "haircut_to_avoid", haircut_to_avoid),
                         StrField(data, "recommended_beard_style", recommended_beard),
                         StrListField(data, "beard_grooming_tips", <<>>),
                         StrField(data, "beard_style_to_avoid", beard_to_avoid),
                         StrField(data, "eyebrow_recommendation", eyebrow_rec),
                         PyInt(Get(data, "grooming_score", JNum(grooming_score))),
                         ApiOrRuleRemarks(api_remarks.value, grooming_remarks))

grooming_enrich_with_api(up, recommended_haircut, haircut_to_avoid, recommended_beard, beard_to_avoid, eyebrow_rec, grooming_score, grooming_remarks, response) ==
    IF response.raised # "none" THEN response
    ELSE IF response.value.t # "object" THEN Raise("AttributeError")   \* data.get
    ELSE EnrichedGroomingProfile(
             response.value.o,
             IterateRemarks(Get(response.value.o, "grooming_remarks", JArr(<<>>)),
                            "grooming_hair", "head", "hair"),
             recommended_haircut, haircut_to_avoid, recommended_beard, beard_to_avoid,
             eyebrow_rec, grooming_score, grooming_remarks)

FirstOr(xs, default) == IF xs # <<>> THEN xs[1] ELSE default

\* try: return _enrich_with_api(...) / except Exception: rule-based values
EnrichedOrRules(api, enriched, rule_based) ==
    IF api /\ enriched.raised = "none" THEN enriched.value ELSE rule_based

GroomingProfileFromRules(up, api, response, recommended_haircut, haircut_to_avoid, recommended_beard, beard_to_avoid, eyebrow_rec, beard_tips, grooming_score, grooming_remarks) ==
    EnrichedOrRules(
        api,
        grooming_enrich_with_api(up, recommended_haircut, haircut_to_avoid,
                                 recommended_beard, beard_to_avoid, eyebrow_rec,
                                 grooming_score, grooming_remarks, response),
        [recommended_haircut |-> recommended_haircut,
         haircut_to_avoid |-> haircut_to_avoid,
         recommended_beard_style |-> recommended_beard,
         beard_grooming_tips |-> beard_tips,
         beard_style_to_avoid |-> beard_to_avoid,
         eyebrow_recommendation |-> eyebrow_rec,
         grooming_score |-> grooming_score,
         grooming_remarks |-> grooming_remarks])

GroomingProfileFromTables(up, api, response, haircut_rules, beard_rules, grooming_score) ==
    GroomingProfileFromRules(
        up, api, response,
        FirstOr(haircut_rules.recommended, "Standard cut"),
        FirstOr(haircut_rules.avoid, "No specific cuts to avoid"),
        FirstOr(beard_rules.recommended, "Maintain current style"),
        FirstOr(beard_rules.avoid, "No specific styles to avoid"),
        get_eyebrow_recommendation(up.face_shape),
        Take(beard_rules.recommended, 3),
        grooming_score,
        _build_grooming_remarks(up, haircut_rules, beard_rules, grooming_score))

generate_grooming_profile(up, api, response) ==
    GroomingProfileFromTables(up, api, response,
                              get_haircut_rules(up.face_shape),
                              get_beard_rules(up.face_shape),
                              score_beard_grooming(up.beard_grooming_quality))

(***************************************************************************)
(* agents/recommendation_agent.py : the aggregator                         *)
(***************************************************************************)

\* a score that looks at the two match flags before the condition
FootwearScoreMatchFirst(fw) ==
    IF ~fw.visible THEN 5
    ELSE IF fw.occasion_match /\ fw.outfit_match THEN 8
    ELSE IF fw.condition \in {"dirty", "worn out", "sole peeling"} THEN 2
    ELSE IF fw.condition \in {"scuffed", "yellowed sole"} THEN 5
    ELSE IF fw.occasion_match \/ fw.outfit_match THEN 6
    ELSE 4

FootwearScore(fw) ==
    IF ~fw.visible THEN 5
    ELSE IF fw.condition \in {"dirty", "worn out", "sole peeling"} THEN 2
    ELSE IF fw.condition \in {"scuffed", "yellowed sole"} THEN 5
    ELSE IF fw.occasion_match /\ fw.outfit_match THEN 8
    ELSE IF fw.occasion_match \/ fw.outfit_match THEN 6
    ELSE 4

_footwear_score(ob) == FootwearScore(ob.footwear_analysis)

_build_rule_based_recommendation(up, gp, ob, color_do, color_dont, outfit_remarks, footwear_remarks, accessory_remarks, grooming_remarks) ==
    [outfit_remarks |-> SortedByPriority(outfit_remarks),
     grooming_remarks |-> SortedByPriority(grooming_remarks),
     accessory_remarks |-> SortedByPriority(accessory_remarks),
     footwear_remarks |-> SortedByPriority(footwear_remarks),
     color_palette_do |-> Take(color_do, 8),
     color_palette_dont |-> Take(color_dont, 6),
     color_palette_occasion_specific |-> <<>>,
     recommended_outfit_instead |-> "See detailed remarks above for specific garment swaps.",
     recommended_grooming_change |-> gp.recommended_beard_style,
     recommended_accessories |-> "See accessory remarks for specific suggestions.",
     wardrobe_gaps |-> <<>>,
     shopping_priorities |-> <<>>,
     overall_style_score |-> ob.outfit_score,
     outfit_score |-> ob.outfit_score,
     grooming_score |-> gp.grooming_score,
     accessory_score |-> ob.accessory_analysis.overall_score,
     footwear_score |-> _footwear_score(ob),
     whats_working |-> Nothing,
     priority_fix_two |-> Nothing]

\* `return sorted(parsed, key=...) if parsed else fallback`
ParsedOrFallback(parsed, fallback) ==
    IF parsed.raised # "none" THEN parsed
    ELSE Ret(IF parsed.value # <<>> THEN SortedByPriority(parsed.value) ELSE fallback)

\* _parse_remarks(raw_list, fallback), the closure inside _enrich_with_api
_parse_remarks(raw_list, fallback) ==
    ParsedOrFallback(IterateRemarks(raw_list, "occasion", "full-look", "outfit"), fallback)

\* fw_visible / lb_visible as _enrich_with_api computes them
fw_visible(ob) == ob.footwear_analysis.visible

lb_visible(ob) ==
    (\E i \in 1..Len(ob.items) :
        ob.items[i].category \in {"bottom", "ethnic-bottom", "full-garment"})
    \/ ob.footwear_analysis.visible

\* the seasonal block of the prompt: try / except Exception around both lookups
SeasonalContext(_seasonal, s_do, s_avoid) ==
    IF s_do.raised = "none" /\ s_avoid.raised = "none"
    THEN [seasonal_type |-> _seasonal, seasonal_do |-> s_do.value,
          seasonal_avoid |-> s_avoid.value]
    ELSE [seasonal_type |-> "", seasonal_do |-> <<>>, seasonal_avoid |-> <<>>]

SeasonalContextOf(_seasonal) ==
    IF _seasonal = ""
    THEN [seasonal_type |-> "", seasonal_do |-> <<>>, seasonal_avoid |-> <<>>]
    ELSE SeasonalContext(_seasonal, seasonal_palette_do(_seasonal),
                         seasonal_palette_avoid(_seasonal))

OrEmpty(opt) == IF opt.is_none THEN "" ELSE opt.value

\* what _enrich_with_api puts into the prompt before call_text
RecommendationPrompt(up, ob, occ_in, color_do, color_dont) ==
    [occasion |-> occ_in,
     body_do |-> Take(get_do(up.body_shape), 4),
     body_avoid |-> Take(get_avoid(up.body_shape), 3),
     haircut_recommended |-> Take(get_haircut_rules(up.face_shape).recommended, 2),
     beard_recommended |-> Take(get_beard_rules(up.face_shape).recommended, 2),
     eyebrows |-> get_eyebrow_recommendation(up.face_shape),
     color_do |-> color_do,
     color_dont |-> color_dont,
     footwear_visible |-> fw_visible(ob),
     lower_body_visible |-> lb_visible(ob),
     seasonal |-> SeasonalContextOf(OrEmpty(up.seasonal_color_type)),
     archetype_context |-> archetype_context_string(OrEmpty(up.style_archetype)),
     proportion_rules |-> proportion_context_string(up.height_estimate, up.body_shape)]

\* `if not visible: remarks = [r for r in remarks if r.body_zone != zone]`
HardFilter(remarks, visible, zone) ==
    IF visible THEN remarks ELSE SelectSeq(remarks, LAMBDA r : r.body_zone # zone)

StyleRecommendation(outfit_remarks, grooming_remarks, accessory_remarks, footwear_remarks, color_palette_do, color_palette_dont, color_palette_occasion_specific, recommended_outfit_instead, recommended_grooming_change, recommended_accessories, wardrobe_gaps, shopping_priorities, overall_style_score, outfit_score, grooming_score, accessory_score, footwear_score, whats_working, priority_fix_two) ==
    \* int(...) raises while the arguments are evaluated, validation after
    IF FirstRaised(<<overall_style_score, outfit_score, grooming_score,
                     accessory_score>>, 1) # "none"
    THEN Raise(FirstRaised(<<overall_style_score, outfit_score, grooming_score,
                             accessory_score>>, 1))
    ELSE IF FirstRaised(<<color_palette_do, color_palette_dont,
                          color_palette_occasion_specific, recommended_outfit_instead,
                          recommended_grooming_change, recommended_accessories,
                          wardrobe_gaps, shopping_priorities, whats_working,
                          priority_fix_two>>, 1) # "none"
    THEN Raise("ValidationError")
    ELSE Ret([outfit_remarks |-> outfit_remarks,
              grooming_remarks |-> grooming_remarks,
              accessory_remarks |-> accessory_remarks,
              footwear_remarks |-> footwear_remarks,
              color_palette_do |-> color_palette_do.value,
              color_palette_dont |-> color_palette_dont.value,
              color_palette_occasion_specific |-> color_palette_occasion_specific.value,
              recommended_outfit_instead |-> recommended_outfit_instead.value,
              recommended_grooming_change |-> recommended_grooming_change.value,
              recommended_accessories |-> recommended_accessories.value,
              wardrobe_gaps |-> wardrobe_gaps.value,
              shopping_priorities |-> shopping_priorities.value,
              overall_style_score |-> overall_style_score.value,
              outfit_score |-> outfit_score.value,
              grooming_score |-> grooming_score.value,
              accessory_score |-> accessory_score.value,
              footwear_score |-> footwear_score,
              whats_working |-> whats_working.value,
              priority_fix_two |-> priority_fix_two.value])

\* the part of _enrich_with_api after the four _parse_remarks calls
EnrichedRecommendation(data, gp, ob, color_do, color_dont, p_outfit, p_grooming, p_accessory, p_footwear) ==
    IF FirstRaised(<<p_outfit, p_grooming, p_accessory, p_footwear>>, 1) # "none"
    THEN Raise(FirstRaised(<<p_outfit, p_grooming, p_accessory, p_footwear>>, 1))
    ELSE StyleRecommendation(
             HardFilter(HardFilter(p_outfit.value, fw_visible(ob), "feet"),
                        lb_visible(ob), "lower-body"),
             p_grooming.value,
             HardFilter(p_accessory.value, fw_visible(ob), "feet"),
             IF fw_visible(ob) THEN p_footwear.value ELSE <<>>,
             StrListField(data, "color_palette_do", Take(color_do, 6)),
             StrListField(data, "color_palette_dont", Take(color_dont, 4)),
             StrListField(data, "color_palette_occasion_specific", <<>>),
             StrField(data, "recommended_outfit_instead", ""),
             StrField(data, "recommended_grooming_change", ""),
             StrField(data, "recommended_accessories", ""),
             StrListField(data, "wardrobe_gaps", <<>>),
             StrListField(data, "shopping_priorities", <<>>),
             PyInt(Get(data, "overall_style_score", JNum(ob.outfit_score))),
             PyInt(Get(data, "outfit_score", JNum(ob.outfit_score))),
             PyInt(Get(data, "grooming_score", JNum(gp.grooming_score))),
             PyInt(Get(data, "accessory_score", JNum(ob.accessory_analysis.overall_score))),
             _footwear_score(ob),
             OptionalStrField(data, "whats_working"),
             OptionalStrField(data, "priority_fix_two"))

\* _enrich_with_api from `raw = call_text(prompt)` on; `response` is Raise(exc)
\* when call_text or parse_json_response raised, else Ret(parsed JSON)
_enrich_with_api(up, gp, ob, color_do, color_dont, rule_outfit_remarks, rule_footwear_remarks, rule_accessory_remarks, rule_grooming_remarks, response) ==
    IF response.raised # "none" THEN response
    ELSE IF response.value.t # "object" THEN Raise("AttributeError")   \* data.get
    ELSE EnrichedRecommendation(
             response.value.o, gp, ob, color_do, color_dont,
             _parse_remarks(Get(response.value.o, "outfit_remarks", JArr(<<>>)),
                            rule_outfit_remarks),
             _parse_remarks(Get(response.value.o, "grooming_remarks", JArr(<<>>)),
                            rule_grooming_remarks),
             _parse_remarks(Get(response.value.o, "accessory_remarks", JArr(<<>>)),
                            rule_accessory_remarks),
             _parse_remarks(Get(response.value.o, "footwear_remarks", JArr(<<>>)),
                            rule_footwear_remarks))

\* the four rule-based lists generate_recommendation builds first
RuleRemarks(up, gp, ob, occ_in) ==
    [outfit |-> _build_outfit_remarks(up, ob, occ_in),
     footwear |-> _build_footwear_remarks(ob, occ_in),
     accessory |-> _build_accessory_remarks(up, ob, occ_in),
     grooming |-> gp.grooming_remarks]

\* a handler that catches the API client's errors only
CaughtOnlyApiErrors(exc) ==
    exc \in {"APITimeoutError", "RateLimitError", "APIConnectionError"}

\* `except Exception` around the enrichment call
CaughtByFallback(exc) == IsInstance(exc, "Exception")

\* try: return _enrich_with_api(...) / except Exception: fall through to
\* _build_rule_based_recommendation
EnrichedOrRuleBased(api, enriched, up, gp, ob, color_do, color_dont, rules) ==
    IF api /\ enriched.raised = "none" THEN enriched
    ELSE IF api /\ ~CaughtByFallback(enriched.raised) THEN enriched
    ELSE Ret(_build_rule_based_recommendation(up, gp, ob, color_do, color_dont,
                 rules.outfit, rules.footwear, rules.accessory, rules.grooming))

RecommendationWithPalette(up, gp, ob, api, rules, response, color_do, color_dont) ==
    EnrichedOrRuleBased(
        api,
        _enrich_with_api(up, gp, ob, color_do, color_dont, rules.outfit, rules.footwear,
                         rules.accessory, rules.grooming, response),
        up, gp, ob, color_do, color_dont, rules)

\* generate_recommendation once the enrichment collaborator has answered
\* (use_api=True), or without asking it (use_api=False)
generate_recommendation(up, gp, ob, occ_in, api, rules, response) ==
    RecommendationWithPalette(up, gp, ob, api, rules, response,
                              palette_do(up.skin_undertone),
                              palette_avoid(up.skin_undertone))

(***************************************************************************)
(* Inputs of the analysis pipeline                                         *)
(***************************************************************************)

\* UserProfile records (the fields the core reads)
Profiles ==
    {[face_shape |-> "round", body_shape |-> "rectangle", skin_undertone |-> "warm",
      height_estimate |-> "tall", beard_grooming_quality |-> "unkempt",
      seasonal_color_type |-> Some("monsoon"), style_archetype |-> Some("classic")],
     [face_shape |-> "oval", body_shape |-> "triangle", skin_undertone |-> "cool",
      height_estimate |-> "petite", beard_grooming_quality |-> "well groomed",
      seasonal_color_type |-> Nothing, style_archetype |-> Nothing]}

Occasions == {"wedding_guest_indian", "western_business_formal"}

\* garments as the vision collaborator reports them (JSON objects)
GKurta ==
    JObj([category |-> JStr("ethnic-top"), garment_type |-> JStr("kurta"),
          fabric_estimate |-> JStr("polyester"), length |-> JStr("Hip length"),
          collar_type |-> JStr("nehru"), occasion_appropriate |-> JBool(FALSE),
          issue |-> JStr("Kurta fabric reads synthetic"),
          fix |-> JStr("Choose a silk-cotton kurta")])

GShirt ==
    JObj([category |-> JStr("top"), garment_type |-> JStr("shirt"),
          fabric_estimate |-> JStr("heavy"), fit |-> JStr("relaxed"),
          collar_type |-> JStr("spread collar")])

GTrousers ==
    JObj([category |-> JStr("bottom"), garment_type |-> JStr("trousers"),
          fit |-> JStr("formal tailored"), length |-> JStr("Full break")])

GBlazer ==
    JObj([category |-> JStr("outerwear"), garment_type |-> JStr("blazer"),
          fabric_estimate |-> JStr("light"), fit |-> JStr("slim")])

\* a category outside the prompt's vocabulary
GStole ==
    JObj([category |-> JStr("scarf"), garment_type |-> JStr("stole"),
          occasion_appropriate |-> JBool(FALSE),
          issue |-> JStr("Stole fights the kurta"), fix |-> JStr("Drop the stole")])

FwDirty ==
    JObj([visible |-> JBool(TRUE), type |-> JStr("loafers"), condition |-> JStr("dirty"),
          occasion_match |-> JBool(FALSE), outfit_match |-> JBool(TRUE),
          issue |-> JStr("Loafers are too casual here"),
          recommended_instead |-> JStr("black oxfords")])

FwClean ==
    JObj([visible |-> JBool(TRUE), type |-> JStr("oxford"), condition |-> JStr("clean"),
          occasion_match |-> JBool(TRUE), outfit_match |-> JBool(TRUE)])

AccBelt ==
    JObj([items_detected |->
              JArr(<<JObj([type |-> JStr("belt"), occasion_appropriate |-> JBool(FALSE),
                           issue |-> JStr("Casual belt with formal trousers"),
                           fix |-> JStr("Slim leather belt")])>>),
          overall_score |-> JNum(0)])

\* a watch and a pocket square, both fine for the occasion
AccPocketSquare ==
    JObj([items_detected |->
              JArr(<<JObj([type |-> JStr("watch")]),
                     JObj([type |-> JStr("pocket_square")])>>),
          overall_score |-> JNum(8)])

\* answers of the vision collaborator: a failed call, or a parsed JSON object
VisionResponses ==
    {Raise("APIConnectionError"),
     Ret(JObj(EmptyDict)),
     \* half-body photo: torso only
     Ret(JObj([items |-> JArr(<<GKurta>>), outfit_score |-> JNum(7),
               occasion_match |-> JBool(TRUE)])),
     Ret(JObj([items |-> JArr(<<GStole>>), occasion_match |-> JBool(TRUE)])),
     \* legs in frame, feet cut off
     Ret(JObj([items |-> JArr(<<GShirt, GTrousers>>), outfit_score |-> JNum(6),
               occasion_match |-> JBool(TRUE)])),
     \* full-length photos
     Ret(JObj([items |-> JArr(<<GShirt, GTrousers>>), footwear_analysis |-> FwDirty,
               accessory_analysis |-> AccBelt, outfit_score |-> JNum(11),
               color_clash_detected |-> JBool(TRUE),
               overall_color_harmony |-> JStr("red against orange")])),
     Ret(JObj([items |-> JArr(<<GBlazer, GShirt>>), footwear_analysis |-> FwClean,
               outfit_score |-> JNum(8), occasion_match |-> JBool(TRUE)]))}

\* answers of the text collaborator to the grooming prompt
GroomingResponses ==
    {Raise("APITimeoutError"),
     Ret(JObj(EmptyDict)),
     Ret(JObj([grooming_score |-> JNum(0)])),
     Ret(JObj([grooming_remarks |->
                   JArr(<<JObj([priority_order |-> JNum(2), body_zone |-> JStr("face"),
                                category |-> JStr("grooming_beard")]),
                          JObj([priority_order |-> JNum(1), body_zone |-> JStr("head")])>>)])),
     Ret(JObj([grooming_remarks |->
                   JArr(<<JObj([priority_order |-> JNum(1), body_zone |-> JStr("feet"),
                                category |-> JStr("grooming_skin"),
                                issue |-> JStr("Cracked heels")])>>)])),
     Ret(JObj([grooming_remarks |->
                   JArr(<<JObj([priority_order |-> JNum(1), body_zone |-> JStr("lower-body"),
                                category |-> JStr("grooming_skin")])>>)]))}


\* most raw entries one remark list of an enrichment answer carries
MaxApiRemarks == 2

\* raw remark entries of an enrichment answer: three well-formed ones, then an
\* unknown category, a null priority and a string where an object belongs
ApiEntries ==
    {JObj([severity |-> JStr("moderate"), category |-> JStr("fit"),
           body_zone |-> JStr("upper-body"), element |-> JStr("shirt"),
           issue |-> JStr("Shoulder seam droops"), priority_order |-> JNum(3)]),
     JObj([severity |-> JStr("urgent"), category |-> JStr("footwear"),
           body_zone |-> JStr("feet"), priority_order |-> JNum(2)]),
     JObj([category |-> JStr("length"), body_zone |-> JStr("lower-body"),
           priority_order |-> JStr("1")]),
     JObj([category |-> JStr("vibes"), priority_order |-> JNum(1)]),
     JObj([priority_order |-> JNull]),
     JStr("tuck the shirt in")}

SeqsUpTo(S, n) == UNION {[1..k -> S] : k \in 0..n}

RemarkListKeys ==
    {"outfit_remarks", "grooming_remarks", "accessory_remarks", "footwear_remarks"}

\* answers of the text collaborator to the recommendation prompt, as call_text
\* followed by parse_json_response hands them over
EnrichmentResponses ==
    {Raise("APITimeoutError"), Raise("RateLimitError"),
     Raise("ValueError"),                      \* no JSON in the answer
     Ret(JArr(<<>>)), Ret(JStr("looks good")), \* JSON, but not an object
     Ret(JObj(EmptyDict)),
     Ret(JObj([overall_style_score |-> JNum(15)])),
     Ret(JObj([grooming_score |-> JStr("high")])),
     Ret(JObj([accessory_score |-> JStr("8"), outfit_score |-> JNum(0)])),
     Ret(JObj([outfit_score |-> JNull])),
     Ret(JObj([recommended_outfit_instead |-> JNum(4)])),
     Ret(JObj([color_palette_do |-> JStr("navy")])),
     Ret(JObj([outfit_remarks |-> JNull])),
     Ret(JObj([outfit_remarks |->
                   JArr(<<JObj([severity |-> JStr("critical"), category |-> JStr("fit"),
                                body_zone |-> JStr("upper-body"), priority_order |-> JNum(1)])>>),
               grooming_remarks |->
                   JArr(<<JObj([category |-> JStr("grooming_hair"),
                                body_zone |-> JStr("head"), priority_order |-> JNum(1)])>>),
               accessory_remarks |->
                   JArr(<<JObj([category |-> JStr("accessory"),
                                body_zone |-> JStr("upper-body"), priority_order |-> JNum(1)])>>),
               footwear_remarks |->
                   JArr(<<JObj([category |-> JStr("footwear"),
                                body_zone |-> JStr("feet"), priority_order |-> JNum(1)])>>),
               color_palette_do |-> StrList(<<"navy", "rust">>),
               recommended_outfit_instead |-> JStr("Swap the shirt for an oxford"),
               overall_style_score |-> JNum(7), outfit_score |-> JNum(7),
               grooming_score |-> JNum(8), accessory_score |-> JNum(6),
               whats_working |-> JStr("The colour story is coherent")]))}
    \cup {Ret(JObj([k \in {key} |-> JArr(entries)])) :
             key \in RemarkListKeys, entries \in SeqsUpTo(ApiEntries, MaxApiRemarks)}

(***************************************************************************)
(* The analysis pipeline (agents/style_agent.py run_analysis): vision,     *)
(* grooming, recommendation.  Each agent call may be made with or without  *)
(* the API, as generate_grooming_profile and generate_recommendation are   *)
(* also called on their own.                                               *)
(***************************************************************************)

IdleLookup == [fn |-> "none", args |-> <<>>, out |-> None]

\* no profile file on disk
NoStore == [exists |-> FALSE]

\* run_analysis has not been called
NoAnalysis == [n |-> 0]

NoRules == [outfit |-> Nothing, footwear |-> Nothing,
            accessory |-> Nothing, grooming |-> Nothing]

Built(rules) == [outfit |-> Some(rules.outfit), footwear |-> Some(rules.footwear),
                 accessory |-> Some(rules.accessory), grooming |-> Some(rules.grooming)]

Lists(rules) == [outfit |-> rules.outfit.value, footwear |-> rules.footwear.value,
                 accessory |-> rules.accessory.value, grooming |-> rules.grooming.value]

Init ==
    /\ pc = "vision"
    /\ user_profile \in Profiles
    /\ occasion \in Occasions
    /\ outfit_breakdown = None
    /\ grooming_profile = None
    /\ rule_remarks = NoRules
    /\ api_response = None
    /\ recommendation = None
    /\ use_api = FALSE
    /\ raised = "none"
    /\ lookup = IdleLookup
    /\ profile_store = NoStore
    /\ analysis_run = NoAnalysis
    /\ history = <<>>

\* a step that lets the exception of analyse_outfit through
RunVisionUnguarded(analysed) == analysed

\* _run_vision: `except Exception as exc: raise StyleAgentError(...) from exc`
_run_vision(analysed) ==
    IF analysed.raised = "none" THEN analysed ELSE Raise("StyleAgentError")

\* obj.name on a dataclass instance
Attr(obj, name) == IF name \in DOMAIN obj THEN Ret(obj[name]) ELSE Raise("AttributeError")

\* the GroomingProfile(...) call of the except branch of _run_grooming: its
\* arguments read haircut.recommended, haircut.to_avoid, beard.recommended,
\* beard.tips and beard.to_avoid, in this order
MinimalGroomingProfile(haircut, beard, read) ==
    IF FirstRaised(read, 1) # "none" THEN Raise(FirstRaised(read, 1))
    ELSE Ret([recommended_haircut |-> Join(Take(haircut.recommended, 2), ", "),
              haircut_to_avoid |-> Join(Take(haircut.to_avoid, 2), ", "),
              recommended_beard_style |-> Join(Take(beard.recommended, 2), ", "),
              beard_grooming_tips |-> Take(beard.tips, 2),
              beard_style_to_avoid |-> Join(Take(beard.to_avoid, 1), ", "),
              eyebrow_recommendation |-> "Maintain natural shape",
              grooming_score |-> 5,
              grooming_remarks |-> <<>>])

GroomingDefaults(haircut, beard) ==
    MinimalGroomingProfile(haircut, beard,
        <<Attr(haircut, "recommended"), Attr(haircut, "to_avoid"),
          Attr(beard, "recommended"), Attr(beard, "tips"), Attr(beard, "to_avoid")>>)

\* _run_grooming: the profile generate_grooming_profile returned, or, when it
\* raised, the minimal profile of the except branch
_run_grooming(up, generated) ==
    IF generated.raised = "none" THEN generated
    ELSE GroomingDefaults(get_haircut_rules(up.face_shape), get_beard_rules(up.face_shape))

\* _run_vision: any failure of analyse_outfit becomes a StyleAgentError
RunVision ==
    /\ pc = "vision"
    /\ \E response \in VisionResponses :
          \E built \in {_run_vision(analyse_outfit(response))} :
             IF built.raised = "none"
             THEN /\ outfit_breakdown' = built.value
                  /\ pc' = "grooming"
                  /\ raised' = raised
             ELSE /\ outfit_breakdown' = outfit_breakdown
                  /\ pc' = "failed"
                  /\ raised' = built.raised
    /\ UNCHANGED <<user_profile, occasion, grooming_profile, rule_remarks,
                   api_response, recommendation, use_api, lookup, profile_store, analysis_run, history>>

\* _run_grooming -> generate_grooming_profile; the call is guarded by
\* `except Exception`, so its outcome is a profile or an exception
RunGrooming ==
    /\ pc = "grooming"
    /\ \E api \in BOOLEAN, response \in GroomingResponses :
          \E generated \in {Ret(generate_grooming_profile(user_profile, api, response)),
                            Raise("RuntimeError")} :
             \E done \in {_run_grooming(user_profile, generated)} :
                IF done.raised = "none"
                THEN /\ grooming_profile' = done.value
                     /\ pc' = "recommendation"
                     /\ raised' = raised
                ELSE /\ grooming_profile' = grooming_profile
                     /\ pc' = "failed"
                     /\ raised' = done.raised
    /\ UNCHANGED <<user_profile, occasion, outfit_breakdown, rule_remarks,
                   api_response, recommendation, use_api, lookup, profile_store, analysis_run, history>>

\* the arguments as they would be had the grooming remarks been sorted in
\* place, in the caller's list
ArgumentsSortedInPlace(up, gp, ob) ==
    [user_profile |-> up,
     grooming_profile |-> [gp EXCEPT !.grooming_remarks = SortedByPriority(@)],
     outfit_breakdown |-> ob]

\* the arguments as generate_recommendation leaves them to its caller: it
\* binds list(grooming_profile.grooming_remarks), and every later sort,
\* concatenation and filter (sorted(), a + b, list comprehensions) builds a
\* new list, so no write reaches a record or list that was passed in
ArgumentsAfterCall(up, gp, ob) ==
    [user_profile |-> up, grooming_profile |-> gp, outfit_breakdown |-> ob]

\* generate_recommendation up to the enrichment call (use_api=True), or to
\* its return (use_api=False)
GenerateRecommendation ==
    /\ pc = "recommendation"
    /\ \E api \in BOOLEAN :
          \E rules \in {RuleRemarks(user_profile, grooming_profile,
                                    outfit_breakdown, occasion)} :
             /\ use_api' = api
             /\ rule_remarks' = Built(rules)
             /\ IF api
                THEN /\ api_response' =
                            [prompt |-> RecommendationPrompt(user_profile, outfit_breakdown,
                                            occasion, palette_do(user_profile.skin_undertone),
                                            palette_avoid(user_profile.skin_undertone)),
                             response |-> Nothing]
                     /\ pc' = "enriching"
                     /\ recommendation' = recommendation
                ELSE /\ api_response' = api_response
                     /\ pc' = "done"
                     /\ recommendation' =
                            generate_recommendation(user_profile, grooming_profile,
                                outfit_breakdown, occasion, FALSE, rules, Nothing).value
    /\ \E left \in {ArgumentsAfterCall(user_profile, grooming_profile,
                                       outfit_breakdown)} :
          /\ user_profile' = left.user_profile
          /\ grooming_profile' = left.grooming_profile
          /\ outfit_breakdown' = left.outfit_breakdown
    /\ UNCHANGED <<occasion, raised, lookup, profile_store, analysis_run, history>>

\* the enrichment collaborator answers (or fails) and generate_recommendation
\* runs to its end
EnrichmentReturns ==
    /\ pc = "enriching"
    /\ \E response \in EnrichmentResponses :
          \E out \in {generate_recommendation(user_profile, grooming_profile,
                          outfit_breakdown, occasion, TRUE, Lists(rule_remarks), response)} :
             /\ api_response' = [api_response EXCEPT !.response = Some(response)]
             /\ IF out.raised = "none"
                THEN /\ recommendation' = out.value
                     /\ pc' = "done"
                     /\ raised' = raised
                ELSE /\ recommendation' = recommendation
                     /\ pc' = "failed"
                     /\ raised' = out.raised
    /\ \E left \in {ArgumentsAfterCall(user_profile, grooming_profile,
                                       outfit_breakdown)} :
          /\ user_profile' = left.user_profile
          /\ grooming_profile' = left.grooming_profile
          /\ outfit_breakdown' = left.outfit_breakdown
    /\ UNCHANGED <<occasion, rule_remarks, use_api, lookup, profile_store, analysis_run, history>>

Next == RunVision \/ RunGrooming \/ GenerateRecommendation \/ EnrichmentReturns

Spec == Init /\ [][Next]_vars


(***************************************************************************)
(* The rule-based synthesis passes on their own: the four passes run in    *)
(* the order generate_grooming_profile / generate_recommendation call      *)
(* them, over breakdowns of up to MaxItems garments.                       *)
(***************************************************************************)

\* most garments in one breakdown
MaxItems == 2

SynthGarments == {GKurta, GShirt, GTrousers, GBlazer, GStole}

SynthBreakdowns ==
    {_build_outfit_breakdown(
         JObj([items |-> JArr(items), footwear_analysis |-> fw,
               accessory_analysis |-> acc,
               color_clash_detected |-> JBool(clash),
               occasion_match |-> JBool(~clash)])).value :
        items \in SeqsUpTo(SynthGarments, MaxItems),
        fw \in {JObj(EmptyDict), FwDirty, FwClean},
        acc \in {JObj(EmptyDict), AccBelt, AccPocketSquare},
        clash \in BOOLEAN}

InitSynth ==
    /\ pc = "synth_outfit"
    /\ user_profile \in Profiles
    /\ occasion \in Occasions
    /\ outfit_breakdown \in SynthBreakdowns
    /\ grooming_profile = None
    /\ rule_remarks = NoRules
    /\ api_response = None
    /\ recommendation = None
    /\ use_api = FALSE
    /\ raised = "none"
    /\ lookup = IdleLookup
    /\ profile_store = NoStore
    /\ analysis_run = NoAnalysis
    /\ history = <<>>

\* one pass has run: its list is kept and the next pass is due
PassDone(field, remarks, next_pc) ==
    /\ rule_remarks' = [rule_remarks EXCEPT ![field] = Some(remarks)]
    /\ pc' = next_pc
    /\ UNCHANGED <<user_profile, occasion, outfit_breakdown, grooming_profile,
                   api_response, recommendation, use_api, raised, lookup,
                   profile_store, analysis_run, history>>

SynthOutfit ==
    /\ pc = "synth_outfit"
    /\ PassDone("outfit", _build_outfit_remarks(user_profile, outfit_breakdown, occasion),
                "synth_footwear")

SynthFootwear ==
    /\ pc = "synth_footwear"
    /\ PassDone("footwear", _build_footwear_remarks(outfit_breakdown, occasion),
                "synth_accessory")

SynthAccessory ==
    /\ pc = "synth_accessory"
    /\ PassDone("accessory",
                _build_accessory_remarks(user_profile, outfit_breakdown, occasion),
                "synth_grooming")

SynthGrooming ==
    /\ pc = "synth_grooming"
    /\ PassDone("grooming",
                _build_grooming_remarks(
                    user_profile,
                    get_haircut_rules(user_profile.face_shape),
                    get_beard_rules(user_profile.face_shape),
                    score_beard_grooming(user_profile.beard_grooming_quality)),
                "synth_done")

\* the synthesizer is called a second time with the inputs of the first call
SynthAgain ==
    /\ pc = "synth_done"
    /\ lookup' =
           [fn |-> "remark_synthesizer", args |-> <<>>,
            out |-> Ret([outfit |-> _build_outfit_remarks(user_profile, outfit_breakdown,
                                                      occasion),
                     footwear |-> _build_footwear_remarks(outfit_breakdown, occasion),
                     accessory |-> _build_accessory_remarks(user_profile,
                                                            outfit_breakdown, occasion),
                     grooming |-> _build_grooming_remarks(
                                      user_profile,
                                      get_haircut_rules(user_profile.face_shape),
                                      get_beard_rules(user_profile.face_shape),
                                      score_beard_grooming(
                                          user_profile.beard_grooming_quality))])]
    /\ pc' = "synth_twice"
    /\ UNCHANGED <<user_profile, occasion, outfit_breakdown, grooming_profile,
                   rule_remarks, api_response, recommendation, use_api, raised,
                   profile_store, analysis_run, history>>

NextSynth ==
    SynthOutfit \/ SynthFootwear \/ SynthAccessory \/ SynthGrooming \/ SynthAgain

SpecSynth == InitSynth /\ [][NextSynth]_vars

(***************************************************************************)
(* The knowledge tables and matchers on their own: each action applies one *)
(* function of fashion_knowledge/ (or _footwear_score) to drawn arguments  *)
(* and keeps the call in `lookup`.  Every vocabulary holds one string no   *)
(* table knows.                                                            *)
(***************************************************************************)

Unrecognized == "zorb"

KnowOccasions ==
    {"wedding_guest_indian", "wedding guest indian", "western_formal", "festival",
     Unrecognized}

KnowFabrics == {"silk", "Plain Cotton", Unrecognized}

KnowCollars == {"nehru", "spread collar", "Band Collar", Unrecognized}

KnowFaces == {"round", "oval"}

KnowFootwear == {"loafers", "sneakers", "oxford", Unrecognized}

KnowColors == {"black", "brown", Unrecognized}

KnowGarments == {"sherwani", "kurta", "jeans", Unrecognized}

KnowStraps == {"rubber strap", "leather", Unrecognized}

KnowBags == {"backpack", "briefcase", Unrecognized}

KnowHeights == {"tall", "average", "petite", " Petite", Unrecognized}

KnowShapes == Range(BodyShape) \cup {Unrecognized}

KnowFits == {"slim", "formal tailored", Unrecognized}

KnowWeights == {"light", "heavy", Unrecognized}

KnowConditions ==
    {"clean", "dirty", "Dirty ", "worn out", "sole peeling", "scuffed",
     "yellowed sole", Unrecognized}

KnowSeasons == {"winter", "Autumn ", "", Unrecognized}

KnowArchetypes == {"classic", "Streetwear", "", Unrecognized}

KnowBuilds == {"slim", "broad", Unrecognized}

KnowQualities == {"unkempt", "well groomed", Unrecognized}

\* most rings a photo shows
MaxRings == 3

FootwearInputs ==
    [visible : BOOLEAN, type : {"loafers"}, condition : KnowConditions,
     occasion_match : BOOLEAN, outfit_match : BOOLEAN, issue : {""},
     recommended_instead : {""}]

InitKnow ==
    /\ pc = "know"
    /\ user_profile = None
    /\ occasion = None
    /\ outfit_breakdown = None
    /\ grooming_profile = None
    /\ rule_remarks = NoRules
    /\ api_response = None
    /\ recommendation = None
    /\ use_api = FALSE
    /\ raised = "none"
    /\ lookup = IdleLookup
    /\ profile_store = NoStore
    /\ analysis_run = NoAnalysis
    /\ history = <<>>

\* what a call leaves alone
unchanged_by_call ==
    <<pc, user_profile, occasion, outfit_breakdown, grooming_profile,
      rule_remarks, api_response, recommendation, use_api, raised, profile_store,
      analysis_run, history>>

\* the record of a call of fn(args) whose result, or exception, is out
Call(fn, args, out) == [fn |-> fn, args |-> args, out |-> out]

\* ---- fingerprint matchers ----

WatchStrapAppropriate ==
    \E strap \in KnowStraps, occ \in KnowOccasions :
        /\ pc = "know"
        /\ lookup' = Call("watch_strap_appropriate", <<strap, occ>>,
                        Ret(watch_strap_appropriate(strap, occ)))
        /\ UNCHANGED unchanged_by_call

\* belt and shoe colours as the vision collaborator words them: shades of
\* the black and of the brown family, and colours of neither
BeltColors == KnowColors \cup {"Charcoal ", "tan", "Dark Brown"}

BeltShoeMatch ==
    \E belt \in BeltColors, shoe \in BeltColors :
        /\ pc = "know"
        /\ lookup' = Call("belt_shoe_match", <<belt, shoe>>, Ret(belt_shoe_match(belt, shoe)))
        /\ UNCHANGED unchanged_by_call

BeltAppropriateWithGarment ==
    \E garment \in KnowGarments :
        /\ pc = "know"
        /\ lookup' = Call("belt_appropriate_with_garment", <<garment>>,
                        Ret(belt_appropriate_with_garment(garment)))
        /\ UNCHANGED unchanged_by_call

RingsAppropriate ==
    \E count \in 0..MaxRings, occ \in KnowOccasions :
        /\ pc = "know"
        /\ lookup' = [fn |-> "rings_appropriate", args |-> <<occ>>, ring_count |-> count,
                      out |-> Ret(rings_appropriate(count, occ))]
        /\ UNCHANGED unchanged_by_call

BagAppropriate ==
    \E bag \in KnowBags, occ \in KnowOccasions :
        /\ pc = "know"
        /\ lookup' = Call("bag_appropriate", <<bag, occ>>, Ret(bag_appropriate(bag, occ)))
        /\ UNCHANGED unchanged_by_call

IndianCollarFaceCompatible ==
    \E collar \in KnowCollars, face \in KnowFaces :
        /\ pc = "know"
        /\ lookup' = Call("indian_wear.collar_face_compatible", <<collar, face>>,
                        Ret(indian_collar_face_compatible(collar, face)))
        /\ UNCHANGED unchanged_by_call

WesternCollarFaceCompatible ==
    \E collar \in KnowCollars, face \in KnowFaces :
        /\ pc = "know"
        /\ lookup' = Call("western_wear.collar_face_compatible", <<collar, face>>,
                        Ret(western_collar_face_compatible(collar, face)))
        /\ UNCHANGED unchanged_by_call

FabricAppropriateForOccasion ==
    \E fabric \in KnowFabrics, occ \in KnowOccasions :
        /\ pc = "know"
        /\ lookup' = Call("fabric_appropriate_for_occasion", <<fabric, occ>>,
                        Ret(fabric_appropriate_for_occasion(fabric, occ)))
        /\ UNCHANGED unchanged_by_call

IsValidFusion ==
    \E top \in KnowGarments, bottom \in KnowGarments :
        /\ pc = "know"
        /\ lookup' = Call("is_valid_fusion", <<top, bottom>>, Ret(is_valid_fusion(top, bottom)))
        /\ UNCHANGED unchanged_by_call

TrouserShoeAppropriate ==
    \E fit \in KnowFits, shoe \in KnowFootwear :
        /\ pc = "know"
        /\ lookup' = Call("trouser_shoe_appropriate", <<fit, shoe>>,
                        Ret(trouser_shoe_appropriate(fit, shoe)))
        /\ UNCHANGED unchanged_by_call

IsFootwearAppropriate ==
    \E shoe \in KnowFootwear, occ \in KnowOccasions :
        /\ pc = "know"
        /\ lookup' = Call("is_footwear_appropriate", <<shoe, occ>>,
                        Ret(is_footwear_appropriate(shoe, occ)))
        /\ UNCHANGED unchanged_by_call

\* fabric weights and fits of a base and an outer layer: the vocabulary of
\* validate_layering and strings outside it
LayerWeights == KnowWeights \cup {"medium"}

LayerFits == {"slim", "fitted", "regular", "relaxed", "oversized", Unrecognized}

ValidateLayering ==
    \E base_w \in LayerWeights, outer_w \in LayerWeights,
       base_f \in LayerFits, outer_f \in LayerFits :
        /\ pc = "know"
        /\ lookup' = Call("validate_layering", <<base_w, outer_w, base_f, outer_f>>,
                        Ret(validate_layering(base_w, outer_w, base_f, outer_f)))
        /\ UNCHANGED unchanged_by_call

\* ---- knowledge table lookups with string keys ----

TrouserBreak ==
    \E height \in KnowHeights :
        /\ pc = "know"
        /\ lookup' = Call("trouser_break", <<height>>, Ret(trouser_break(height)))
        /\ UNCHANGED unchanged_by_call

KurtaLengthRecommendation ==
    \E height \in KnowHeights, shape \in Range(BodyShape) :
        /\ pc = "know"
        /\ lookup' = Call("kurta_length_recommendation", <<height, shape>>,
                        Ret(kurta_length_recommendation(height, shape)))
        /\ UNCHANGED unchanged_by_call

GetFootwearRules ==
    \E occ \in KnowOccasions :
        /\ pc = "know"
        /\ lookup' = Call("get_footwear_rules", <<occ>>, Ret(get_footwear_rules(occ)))
        /\ UNCHANGED unchanged_by_call

AssessCondition ==
    \E condition \in KnowConditions :
        /\ pc = "know"
        /\ lookup' = Call("assess_condition", <<condition>>, Ret(assess_condition(condition)))
        /\ UNCHANGED unchanged_by_call

GetFabric ==
    \E name \in KnowFabrics :
        /\ pc = "know"
        /\ lookup' = Call("get_fabric", <<name>>, Ret(get_fabric(name)))
        /\ UNCHANGED unchanged_by_call

FabricFormality ==
    \E name \in KnowFabrics :
        /\ pc = "know"
        /\ lookup' = Call("fabric_formality", <<name>>, Ret(fabric_formality(name)))
        /\ UNCHANGED unchanged_by_call

FabricWeight ==
    \E name \in KnowFabrics :
        /\ pc = "know"
        /\ lookup' = Call("fabric_weight", <<name>>, Ret(fabric_weight(name)))
        /\ UNCHANGED unchanged_by_call

FabricsForOccasion ==
    \E occ \in KnowOccasions :
        /\ pc = "know"
        /\ lookup' = Call("fabrics_for_occasion", <<occ>>, Ret(fabrics_for_occasion(occ)))
        /\ UNCHANGED unchanged_by_call

GetSeasonalPalette ==
    \E season \in KnowSeasons :
        /\ pc = "know"
        /\ lookup' = Call("get_seasonal_palette", <<season>>, get_seasonal_palette(season))
        /\ UNCHANGED unchanged_by_call

SeasonalPaletteDo ==
    \E season \in KnowSeasons :
        /\ pc = "know"
        /\ lookup' = Call("seasonal_palette_do", <<season>>, seasonal_palette_do(season))
        /\ UNCHANGED unchanged_by_call

SeasonalPaletteAvoid ==
    \E season \in KnowSeasons :
        /\ pc = "know"
        /\ lookup' = Call("seasonal_palette_avoid", <<season>>, seasonal_palette_avoid(season))
        /\ UNCHANGED unchanged_by_call

SeasonalContextString ==
    \E season \in KnowSeasons :
        /\ pc = "know"
        /\ lookup' = Call("seasonal_context_string", <<season>>, Ret(seasonal_context_string(season)))
        /\ UNCHANGED unchanged_by_call

GetArchetype ==
    \E archetype \in KnowArchetypes :
        /\ pc = "know"
        /\ lookup' = Call("get_archetype", <<archetype>>, Ret(get_archetype(archetype)))
        /\ UNCHANGED unchanged_by_call

ArchetypeContextString ==
    \E archetype \in KnowArchetypes :
        /\ pc = "know"
        /\ lookup' = Call("archetype_context_string", <<archetype>>,
                        Ret(archetype_context_string(archetype)))
        /\ UNCHANGED unchanged_by_call

GetProportionRules ==
    \E height \in KnowHeights, shape \in KnowShapes :
        /\ pc = "know"
        /\ lookup' = Call("get_proportion_rules", <<height, shape>>,
                        get_proportion_rules(height, shape))
        /\ UNCHANGED unchanged_by_call

ProportionContextString ==
    \E height \in KnowHeights, shape \in KnowShapes :
        /\ pc = "know"
        /\ lookup' = Call("proportion_context_string", <<height, shape>>,
                        Ret(proportion_context_string(height, shape)))
        /\ UNCHANGED unchanged_by_call

PatternScaleRecommendation ==
    \E build \in KnowBuilds, height \in KnowHeights :
        /\ pc = "know"
        /\ lookup' = Call("pattern_scale_recommendation", <<build, height>>,
                        Ret(pattern_scale_recommendation(build, height)))
        /\ UNCHANGED unchanged_by_call

RecommendedPrintScale ==
    \E build \in KnowBuilds :
        /\ pc = "know"
        /\ lookup' = Call("recommended_print_scale", <<build>>, Ret(recommended_print_scale(build)))
        /\ UNCHANGED unchanged_by_call

ScoreBeardGrooming ==
    \E quality \in KnowQualities :
        /\ pc = "know"
        /\ lookup' = Call("score_beard_grooming", <<quality>>, Ret(score_beard_grooming(quality)))
        /\ UNCHANGED unchanged_by_call

\* ---- tables keyed by the closed enums ----

GetPalette ==
    \E undertone \in Range(SkinUndertone) :
        /\ pc = "know"
        /\ lookup' = Call("get_palette", <<undertone>>, Ret(get_palette(undertone)))
        /\ UNCHANGED unchanged_by_call

GetRules ==
    \E shape \in Range(BodyShape) :
        /\ pc = "know"
        /\ lookup' = Call("get_rules", <<shape>>, Ret(get_rules(shape)))
        /\ UNCHANGED unchanged_by_call

GetHaircutRules ==
    \E face_shape \in Range(FaceShape) :
        /\ pc = "know"
        /\ lookup' = Call("get_haircut_rules", <<face_shape>>,
                        Ret(get_haircut_rules(face_shape)))
        /\ UNCHANGED unchanged_by_call

GetBeardRules ==
    \E face_shape \in Range(FaceShape) :
        /\ pc = "know"
        /\ lookup' = Call("get_beard_rules", <<face_shape>>,
                        Ret(get_beard_rules(face_shape)))
        /\ UNCHANGED unchanged_by_call

GetEyebrowRecommendation ==
    \E face_shape \in Range(FaceShape) :
        /\ pc = "know"
        /\ lookup' = Call("get_eyebrow_recommendation", <<face_shape>>,
                        Ret(get_eyebrow_recommendation(face_shape)))
        /\ UNCHANGED unchanged_by_call

\* ---- the derived footwear score ----

FootwearScoreOf ==
    \E fw \in FootwearInputs :
        /\ pc = "know"
        /\ lookup' = [fn |-> "_footwear_score", args |-> <<>>, fw |-> fw,
                      out |-> Ret(_footwear_score([footwear_analysis |-> fw]))]
        /\ UNCHANGED unchanged_by_call

NextKnow ==
    \/ WatchStrapAppropriate \/ BeltShoeMatch \/ BeltAppropriateWithGarment
    \/ RingsAppropriate \/ BagAppropriate \/ IndianCollarFaceCompatible
    \/ WesternCollarFaceCompatible \/ FabricAppropriateForOccasion \/ IsValidFusion
    \/ TrouserShoeAppropriate \/ IsFootwearAppropriate \/ ValidateLayering
    \/ TrouserBreak \/ KurtaLengthRecommendation \/ GetFootwearRules \/ AssessCondition
    \/ GetFabric \/ FabricFormality \/ FabricWeight \/ FabricsForOccasion
    \/ GetSeasonalPalette \/ SeasonalPaletteDo \/ SeasonalPaletteAvoid
    \/ SeasonalContextString \/ GetArchetype \/ ArchetypeContextString
    \/ GetProportionRules \/ ProportionContextString \/ PatternScaleRecommendation
    \/ RecommendedPrintScale \/ ScoreBeardGrooming \/ GetPalette \/ GetRules
    \/ GetHaircutRules \/ GetBeardRules \/ GetEyebrowRecommendation
    \/ FootwearScoreOf

SpecKnow == InitKnow /\ [][NextKnow]_vars

(***************************************************************************)
(* agents/profile_builder.py and style_agent.run_onboarding: a profile is  *)
(* built from photo analyses by majority vote and persisted; a refresh     *)
(* writes the next version.  Of the profile's attributes the model keeps   *)
(* face_shape (one of the voted attributes), photos_used and               *)
(* profile_version.  An exception carries the exception it was raised      *)
(* from (`raise ... from exc`) in `cause`.                                 *)
(***************************************************************************)

MIN_PHOTOS == 3

RaiseFrom(e, cause) == [raised |-> e, cause |-> cause]

\* how often v occurs in values
CountOf(values, v) == Cardinality({i \in 1..Len(values) : values[i] = v})

\* Counter(values).most_common(1)[0]: the most frequent value, the one met
\* first on a tie, with its frequency; confidence is freq / total
MostCommon(values) ==
    LET i == CHOOSE i \in 1..Len(values) :
                 /\ \A j \in 1..Len(values) :
                        CountOf(values, values[j]) <= CountOf(values, values[i])
                 /\ \A j \in 1..(i - 1) :
                        CountOf(values, values[j]) < CountOf(values, values[i])
    IN [value |-> values[i], freq |-> CountOf(values, values[i]), total |-> Len(values)]

\* round(freq / total, 2), in hundredths: the nearest hundredth, the even
\* one when freq / total lies exactly between two
Round2(freq, total) ==
    LET q == (freq * 100) \div total
        r == (freq * 100) % total
    IN IF 2 * r > total THEN q + 1
       ELSE IF 2 * r < total THEN q
       ELSE IF q % 2 = 0 THEN q ELSE q + 1

Voted(most) == [value |-> most.value, confidence |-> Round2(most.freq, most.total)]

\* a vote that takes the first observation as the winner
MajorityVoteFirst(values) ==
    IF values = <<>> THEN [value |-> "unknown", confidence |-> 0]
    ELSE [value |-> values[1],
          confidence |-> Round2(CountOf(values, values[1]), Len(values))]

\* (winner, confidence), the confidence in hundredths
_majority_vote(values) ==
    IF values = <<>> THEN [value |-> "unknown", confidence |-> 0]
    ELSE Voted(MostCommon(values))

\* the analyses' non-null readings of key, in photo order
Readings(photo_analyses, key) ==
    LET kept == SelectSeq(photo_analyses,
                          LAMBDA a : key \in DOMAIN a /\ a[key] \notin {"", "unknown"})
    IN [i \in 1..Len(kept) |-> kept[i][key]]

_vote(photo_analyses, key) == _majority_vote(Readings(photo_analyses, key))

\* FaceShape(face_shape_str), falling back to OVAL on ValueError
FaceShapeOrOval(face_shape_str) ==
    IF InSeq(face_shape_str, FaceShape) THEN face_shape_str ELSE "oval"

build_profile(photo_analyses, photos_used) ==
    IF Len(photo_analyses) < MIN_PHOTOS
    THEN Raise("InsufficientPhotosError")
    ELSE Ret([face_shape |-> FaceShapeOrOval(_vote(photo_analyses, "face_shape").value),
              photos_used |-> IF photos_used.is_none THEN Len(photo_analyses)
                              ELSE photos_used.value,
              profile_version |-> 1])

\* the profile file after save_profile(profile)
save_profile(profile) == [exists |-> TRUE, readable |-> TRUE, profile |-> profile]

load_profile(store) ==
    IF ~store.exists THEN Raise("FileNotFoundError")
    ELSE IF ~store.readable THEN Raise("ValueError")
    ELSE Ret(store.profile)

\* what a call leaves behind: its result or exception, and the profile file
Outcome(out, store) == [out |-> out, store |-> store]

\* the profile is persisted and returned
SavedAndReturned(profile) == Outcome(Ret(profile), save_profile(profile))

SavedIfBuilt(built, store) ==
    IF built.raised = "none" THEN SavedAndReturned(built.value) ELSE Outcome(built, store)

RefreshedFrom(built, store, existing_version) ==
    IF built.raised = "none"
    THEN SavedAndReturned([built.value EXCEPT !.profile_version = existing_version + 1])
    ELSE Outcome(built, store)

refresh_profile(photo_analyses, store, existing_version) ==
    RefreshedFrom(build_profile(photo_analyses, Nothing), store, existing_version)

\* ---- photos ----

PhotoCategory ==
    <<"face_front", "face_side", "body_front", "body_side", "outfit", "unclear">>

\* a photo file: whether validate_and_prepare accepts it, the category
\* categorise_photo gives it, and what the vision analysis of it returns
Photo(readable, category, analysis) ==
    [readable |-> readable, category |-> category, analysis |-> analysis]

\* the analyses of the photos in order (sequential mode: every photo is analysed)
Analyses(photos) == [i \in 1..Len(photos) |-> photos[i].analysis.value]

\* folder mode: the photos that are readable, categorised and analysed
Usable(photos) ==
    SelectSeq(photos, LAMBDA p : /\ p.readable
                                 /\ p.category # "unclear"
                                 /\ p.analysis.raised = "none")

FolderProfile(usable) ==
    IF Len(usable) < MIN_PHOTOS
    THEN Raise("InsufficientPhotosError")
    ELSE build_profile(Analyses(usable), Some(Len(usable)))

\* the refresh flag is accepted and not read
build_profile_from_folder(folder_path, photos, refresh) ==
    IF folder_path = "missing" THEN Raise("FileNotFoundError")
    ELSE IF photos = <<>> THEN Raise("InsufficientPhotosError")
    ELSE FolderProfile(Usable(photos))

\* `except InsufficientPhotosError ... except Exception`: both become StyleAgentError
AsStyleAgentError(done) ==
    IF done.out.raised = "none" THEN done
    ELSE Outcome(RaiseFrom("StyleAgentError", done.out.raised), done.store)

\* except Exception around load_profile / refresh_profile: a fresh build
RefreshOrFreshBuild(refreshed, analyses, store) ==
    IF refreshed.out.raised = "none" THEN refreshed
    ELSE SavedIfBuilt(build_profile(analyses, Some(Len(analyses))), store)

LoadedAndRefreshed(existing, analyses, store) ==
    IF existing.raised # "none" THEN Outcome(existing, store)
    ELSE refresh_profile(analyses, store, existing.value.profile_version)

SequentialBuild(analyses, refresh, store) ==
    IF refresh /\ store.exists
    THEN RefreshOrFreshBuild(LoadedAndRefreshed(load_profile(store), analyses, store),
                             analyses, store)
    ELSE SavedIfBuilt(build_profile(analyses, Some(Len(analyses))), store)

run_onboarding(photos, refresh, folder_mode, folder_path, store) ==
    IF folder_mode
    THEN IF folder_path = ""
         THEN Outcome(RaiseFrom("StyleAgentError", "none"), store)
         ELSE AsStyleAgentError(
                  SavedIfBuilt(build_profile_from_folder(folder_path, photos, refresh),
                               store))
    ELSE IF Len(photos) < 3
    THEN Outcome(RaiseFrom("StyleAgentError", "none"), store)
    ELSE IF \E i \in 1..Len(photos) : ~photos[i].readable
    THEN Outcome(RaiseFrom("StyleAgentError", "UnsupportedFormatError"), store)
    ELSE IF \E i \in 1..Len(photos) : photos[i].analysis.raised # "none"
    THEN Outcome(RaiseFrom("StyleAgentError", "APITimeoutError"), store)
    ELSE AsStyleAgentError(SequentialBuild(Analyses(photos), refresh, store))

\* ---- onboarding runs ----

\* most photos handed to one onboarding
MaxPhotos == 4

\* highest version of a profile found on disk
MaxVersion == 2

\* no key at all: the photo told the vision collaborator nothing
NoReadings == [k \in {} |-> ""]

OnboardingPhotos ==
    {Photo(TRUE, "face_front", Ret([face_shape |-> "oval"])),
     Photo(TRUE, "face_front", Ret([face_shape |-> "round"])),
     Photo(TRUE, "unclear", Ret(NoReadings)),
     Photo(TRUE, "face_front", Raise("APITimeoutError")),
     Photo(FALSE, "unclear", Raise("UnsupportedFormatError"))}

\* the profile file before onboarding: none, one that no longer parses, or a
\* saved profile of some version
ProfileStores ==
    {NoStore, [exists |-> TRUE, readable |-> FALSE]}
        \cup {save_profile([face_shape |-> "oval", photos_used |-> 3,
                            profile_version |-> v]) : v \in 1..MaxVersion}

\* sequential mode, or folder mode with no folder, a folder that is not
\* there, or a folder of photos
OnboardingModes ==
    {[folder_mode |-> FALSE, folder_path |-> ""],
     [folder_mode |-> TRUE, folder_path |-> ""],
     [folder_mode |-> TRUE, folder_path |-> "missing"],
     [folder_mode |-> TRUE, folder_path |-> "looks"]}

InitOnboard ==
    /\ pc = "onboard"
    /\ user_profile = None
    /\ occasion = None
    /\ outfit_breakdown = None
    /\ grooming_profile = None
    /\ rule_remarks = NoRules
    /\ api_response = None
    /\ recommendation = None
    /\ use_api = FALSE
    /\ raised = "none"
    /\ lookup = IdleLookup
    /\ profile_store \in ProfileStores
    /\ analysis_run = NoAnalysis
    /\ history = <<>>

unchanged_by_onboarding ==
    <<occasion, outfit_breakdown, grooming_profile, rule_remarks, api_response,
      recommendation, use_api, analysis_run, history>>

\* one run of run_onboarding: the profile it returns, or the error it raises,
\* and the profile file it leaves
RunOnboarding ==
    /\ pc = "onboard"
    /\ \E mode \in OnboardingModes, refresh \in BOOLEAN :
          \E photos \in IF mode.folder_path = "looks" \/ ~mode.folder_mode
                        THEN SeqsUpTo(OnboardingPhotos, MaxPhotos) ELSE {<<>>} :
             \E done \in {run_onboarding(photos, refresh, mode.folder_mode,
                                         mode.folder_path, profile_store)} :
                /\ lookup' = [fn |-> "run_onboarding", args |-> <<>>,
                              photos |-> photos, refresh |-> refresh,
                              folder_mode |-> mode.folder_mode,
                              folder_path |-> mode.folder_path,
                              existing |-> profile_store, out |-> done.out]
                /\ profile_store' = done.store
                /\ raised' = done.out.raised
                /\ user_profile' = IF done.out.raised = "none" THEN done.out.value
                                   ELSE user_profile
    /\ pc' = "onboarded"
    /\ UNCHANGED unchanged_by_onboarding

\* build_profile called on its own, as the library's callers do
BuildProfile ==
    /\ pc = "onboard"
    /\ \E photos \in SeqsUpTo({p \in OnboardingPhotos : p.analysis.raised = "none"},
                              MaxPhotos) :
          \E built \in {build_profile(Analyses(photos), Nothing)} :
             /\ lookup' = [fn |-> "build_profile", args |-> <<>>, photos |-> photos,
                           existing |-> profile_store, out |-> built]
             /\ raised' = built.raised
             /\ user_profile' = IF built.raised = "none" THEN built.value
                                ELSE user_profile
    /\ pc' = "onboarded"
    /\ UNCHANGED <<unchanged_by_onboarding, profile_store>>

\* readings of one attribute over the photos of one onboarding
VoteValues == {"warm", "cool", "neutral"}

\* _majority_vote called on its own
MajorityVote ==
    /\ pc = "onboard"
    /\ \E values \in SeqsUpTo(VoteValues, MaxPhotos) :
          lookup' = [fn |-> "_majority_vote", args |-> <<values>>,
                     out |-> Ret(_majority_vote(values))]
    /\ pc' = "onboarded"
    /\ UNCHANGED <<unchanged_by_onboarding, profile_store, raised, user_profile>>

NextOnboard == RunOnboarding \/ BuildProfile \/ MajorityVote

SpecOnboard == InitOnboard /\ [][NextOnboard]_vars

(***************************************************************************)
(* agents/style_agent.py run_analysis, from its call to its return, one    *)
(* analysis after another: load the profile and prepare the image, vision, *)
(* grooming, caricature, recommendation, then annotation, JSON and history *)
(* log.  storage/history_store.py keeps the log.                           *)
(***************************************************************************)

\* _load_profile: storage.profile_store.load_profile raises
\* ProfileNotFoundError, which becomes StyleAgentError, or ValueError for a
\* file that does not parse, which is not caught
_load_profile(store) ==
    IF ~store.exists THEN Raise("StyleAgentError")
    ELSE IF ~store.readable THEN Raise("ValueError")
    ELSE Ret(store.profile)

\* _prepare_image: every failure of validate_and_prepare becomes StyleAgentError
_prepare_image(prepared) ==
    IF prepared.raised = "none" THEN prepared ELSE Raise("StyleAgentError")

\* a step that takes whatever path generate returned
RunCaricatureAnyPath(api, original_path, generated) ==
    IF ~api THEN [path |-> "", warning |-> ""]
    ELSE IF generated.raised # "none"
    THEN [path |-> "", warning |-> "Caricature skipped: " \o generated.raised]
    ELSE [path |-> generated.value, warning |-> ""]

\* _run_caricature: (path, warning_or_empty); `generated` is what
\* caricature_agent.generate returned or raised
_run_caricature(api, original_path, generated) ==
    IF ~api THEN [path |-> "", warning |-> ""]
    ELSE IF generated.raised # "none"
    THEN [path |-> "", warning |-> "Caricature skipped: " \o generated.raised]
    ELSE IF generated.value # "" /\ generated.value # original_path
    THEN [path |-> generated.value, warning |-> ""]
    ELSE [path |-> "", warning |-> "Caricature generation failed - text analysis still complete."]

\* `if caric_warning: warnings.append(caric_warning)`
WithWarning(warnings, caric_warning) ==
    IF caric_warning # "" THEN Append(warnings, caric_warning) ELSE warnings

AllRemarks(rec) ==
    rec.outfit_remarks \o rec.footwear_remarks \o rec.accessory_remarks
        \o rec.grooming_remarks

\* the entry append_history writes, as the JSON object of its line; the
\* timestamp is the clock reading of the run
HistoryEntry(rec, json_path, caricature_path, annotated_path, now) ==
    JObj([timestamp |-> JNum(now),
          overall_style_score |-> JNum(rec.overall_style_score),
          outfit_score |-> JNum(rec.outfit_score),
          grooming_score |-> JNum(rec.grooming_score),
          accessory_score |-> JNum(rec.accessory_score),
          footwear_score |-> JNum(rec.footwear_score),
          json_path |-> JStr(json_path),
          caricature_path |-> JStr(caricature_path),
          annotated_path |-> JStr(annotated_path),
          remark_count |-> JNum(Len(AllRemarks(rec))),
          critical_count |->
              JNum(Len(SelectSeq(AllRemarks(rec), LAMBDA r : r.severity = "critical")))])

\* a log that keeps the newest entry first
AppendHistoryNewestFirst(lines, entry) == <<entry>> \o lines

\* append_history: open(_HISTORY_PATH, "a") and one line written
append_history(lines, entry) == Append(lines, entry)

\* load_history(last_n): the parsed lines, oldest first; the last N of them
\* if last_n > 0
load_history(lines, last_n) ==
    IF last_n > 0 /\ last_n < Len(lines)
    THEN SubSeq(lines, Len(lines) - last_n + 1, Len(lines))
    ELSE lines

\* _append_history: `except Exception` around append_history; `written` says
\* whether the log could be written
_append_history(lines, entry, written) ==
    IF written THEN append_history(lines, entry) ELSE lines

\* ---- one analysis after another ----

\* most analyses run one after another
MaxRuns == 2

ImagePath == "photo.jpg"

JsonPath(ts) == "outputs/analysis_" \o ToString(ts) \o ".json"

AnnotatedPath(ts) == "outputs/analysis_" \o ToString(ts) \o "_annotated.jpg"

\* the run_analysis call number n: whether the photo is a cartoon already,
\* the exceptions analyse_outfit and generate_grooming_profile raised, what
\* caricature_agent.generate gave if it was called, the caricature path and
\* the warnings, whether the history log took the entry, and the result
NewAnalysis(n, cartoon_input) ==
    [n |-> n, cartoon_input |-> cartoon_input,
     vision |-> "none", grooming |-> "none", caricature |-> Nothing,
     caricature_path |-> "", warnings |-> <<>>, history_written |-> FALSE,
     result |-> Nothing]

\* AnalysisResult(recommendation, caricature_path, annotated_path, json_path,
\* warnings)
AnalysisResult(rec, caricature_path, annotated_path, json_path, warnings) ==
    [recommendation |-> rec, caricature_path |-> caricature_path,
     annotated_path |-> annotated_path, json_path |-> json_path,
     warnings |-> warnings]

\* the profile file: none, one that does not parse, or a saved profile
RunStores ==
    {NoStore, [exists |-> TRUE, readable |-> FALSE]}
        \cup {save_profile(p) : p \in {q \in Profiles : q.face_shape = "round"}}

RunVisionResponses ==
    {Raise("APIConnectionError"), Raise("ValueError"),
     Ret(JObj([items |-> JArr(<<GShirt, GTrousers>>), footwear_analysis |-> FwDirty,
               accessory_analysis |-> AccBelt, outfit_score |-> JNum(6),
               color_clash_detected |-> JBool(TRUE),
               overall_color_harmony |-> JStr("red against orange")]))}

\* what generate_grooming_profile gives _run_grooming
RunGroomingOutcomes(up, api) ==
    {Ret(generate_grooming_profile(up, api, Raise("APITimeoutError"))),
     Raise("RuntimeError")}

\* what caricature_agent.generate gives _run_caricature: a new image, no
\* image, the original photo, or an exception
CaricatureOutcomes ==
    {Ret("outputs/caricature.png"), Ret(""), Ret(ImagePath), Raise("ReplicateError")}

RunEnrichmentResponses ==
    {Raise("APITimeoutError"),
     Ret(JObj([overall_style_score |-> JNum(7),
               whats_working |-> JStr("The colour story is coherent")]))}

InitRun ==
    /\ pc = "run_idle"
    /\ user_profile = None
    /\ occasion = None
    /\ outfit_breakdown = None
    /\ grooming_profile = None
    /\ rule_remarks = NoRules
    /\ api_response = None
    /\ recommendation = None
    /\ use_api = FALSE
    /\ raised = "none"
    /\ lookup = IdleLookup
    /\ profile_store \in RunStores
    /\ analysis_run = NoAnalysis
    /\ history = <<>>

\* run_analysis is called: steps 1 and 2, the profile and the image
AnalysisStarts ==
    /\ pc \in {"run_idle", "run_returned", "run_raised"}
    /\ analysis_run.n < MaxRuns
    /\ \E occ \in {"", "wedding_guest_indian"}, api \in BOOLEAN, cartoon \in BOOLEAN,
          prepared \in {Ret("b64"), Raise("ImageTooLargeError")} :
          \E loaded \in {_load_profile(profile_store)} :
             /\ analysis_run' = NewAnalysis(analysis_run.n + 1, cartoon)
             /\ occasion' = occ
             /\ use_api' = api
             /\ IF loaded.raised # "none"
                THEN /\ pc' = "run_raised"
                     /\ raised' = loaded.raised
                     /\ user_profile' = None
                ELSE IF _prepare_image(prepared).raised # "none"
                THEN /\ pc' = "run_raised"
                     /\ raised' = _prepare_image(prepared).raised
                     /\ user_profile' = loaded.value
                ELSE /\ pc' = "run_vision"
                     /\ raised' = "none"
                     /\ user_profile' = loaded.value
    /\ outfit_breakdown' = None
    /\ grooming_profile' = None
    /\ recommendation' = None
    /\ UNCHANGED <<rule_remarks, api_response, lookup, profile_store, history>>

\* step 3: _run_vision, then the occasion the photo shows if none was asked for
AnalysisVision ==
    /\ pc = "run_vision"
    /\ \E response \in RunVisionResponses :
          \E built \in {_run_vision(analyse_outfit(response))} :
             /\ analysis_run' = [analysis_run EXCEPT !.vision = analyse_outfit(response).raised]
             /\ IF built.raised = "none"
                THEN /\ outfit_breakdown' = built.value
                     /\ occasion' = IF occasion = "" THEN built.value.occasion_detected
                                    ELSE occasion
                     /\ pc' = "run_grooming"
                     /\ raised' = raised
                ELSE /\ outfit_breakdown' = outfit_breakdown
                     /\ occasion' = occasion
                     /\ pc' = "run_raised"
                     /\ raised' = built.raised
    /\ UNCHANGED <<user_profile, grooming_profile, rule_remarks, api_response,
                   recommendation, use_api, lookup, profile_store, history>>

\* step 4: _run_grooming
AnalysisGrooming ==
    /\ pc = "run_grooming"
    /\ \E generated \in RunGroomingOutcomes(user_profile, use_api) :
          \E done \in {_run_grooming(user_profile, generated)} :
             /\ analysis_run' = [analysis_run EXCEPT !.grooming = generated.raised]
             /\ IF done.raised = "none"
                THEN /\ grooming_profile' = done.value
                     /\ pc' = "run_caricature"
                     /\ raised' = raised
                ELSE /\ grooming_profile' = grooming_profile
                     /\ pc' = "run_raised"
                     /\ raised' = done.raised
    /\ UNCHANGED <<user_profile, occasion, outfit_breakdown, rule_remarks, api_response,
                   recommendation, use_api, lookup, profile_store, history>>

\* step 5: the caricature, unless the photo is a cartoon already
AnalysisCaricature ==
    /\ pc = "run_caricature"
    /\ \E generated \in CaricatureOutcomes :
          \E made \in {IF analysis_run.cartoon_input
                       THEN [path |-> ImagePath, warning |-> ""]
                       ELSE _run_caricature(use_api, ImagePath, generated)} :
             analysis_run' = [analysis_run EXCEPT
                                 !.caricature = IF analysis_run.cartoon_input \/ ~use_api
                                                THEN Nothing ELSE Some(generated),
                                 !.caricature_path = made.path,
                                 !.warnings = WithWarning(@, made.warning)]
    /\ pc' = "run_recommendation"
    /\ UNCHANGED <<user_profile, occasion, outfit_breakdown, grooming_profile,
                   rule_remarks, api_response, recommendation, use_api, raised, lookup,
                   profile_store, history>>

\* step 6: _run_recommendation -> generate_recommendation
AnalysisRecommendation ==
    /\ pc = "run_recommendation"
    /\ \E response \in IF use_api THEN RunEnrichmentResponses ELSE {Nothing} :
          \E out \in {generate_recommendation(user_profile, grooming_profile,
                          outfit_breakdown, occasion, use_api,
                          RuleRemarks(user_profile, grooming_profile, outfit_breakdown,
                                      occasion),
                          response)} :
             IF out.raised = "none"
             THEN /\ recommendation' = out.value
                  /\ pc' = "run_finish"
                  /\ raised' = raised
             ELSE /\ recommendation' = recommendation
                  /\ pc' = "run_raised"
                  /\ raised' = out.raised
    /\ UNCHANGED <<user_profile, occasion, outfit_breakdown, grooming_profile,
                   rule_remarks, api_response, use_api, lookup, profile_store,
                   analysis_run, history>>

\* steps 7 to 9 and the return: _annotate gives the annotated image or the
\* caricature it was handed, _save_json and _append_history swallow their
\* failures
AnalysisReturns ==
    /\ pc = "run_finish"
    /\ \E annotated \in IF analysis_run.caricature_path # ""
                        THEN {AnnotatedPath(analysis_run.n), analysis_run.caricature_path}
                        ELSE {""},
          written \in BOOLEAN :
          /\ history' = _append_history(history,
                            HistoryEntry(recommendation, JsonPath(analysis_run.n),
                                         analysis_run.caricature_path,
                                         AnnotatedPath(analysis_run.n), analysis_run.n),
                            written)
          /\ analysis_run' = [analysis_run EXCEPT
                                 !.history_written = written,
                                 !.result =
                                 Some(AnalysisResult(recommendation,
                                                     analysis_run.caricature_path, annotated,
                                                     JsonPath(analysis_run.n),
                                                     analysis_run.warnings))]
    /\ pc' = "run_returned"
    /\ UNCHANGED <<user_profile, occasion, outfit_breakdown, grooming_profile,
                   rule_remarks, api_response, recommendation, use_api, raised, lookup,
                   profile_store>>

NextRun ==
    \/ AnalysisStarts
    \/ AnalysisVision
    \/ AnalysisGrooming
    \/ AnalysisCaricature
    \/ AnalysisRecommendation
    \/ AnalysisReturns

SpecRun == InitRun /\ [][NextRun]_vars

(***************************************************************************)
(* Properties of the aggregator (specification Spec)                       *)
(***************************************************************************)

IsRemark(r) ==
    /\ DOMAIN r = {"severity", "category", "body_zone", "element", "issue", "fix",
                   "why", "priority_order"}
    /\ r.category \in RemarkCategory
    /\ r.priority_order \in Int

IsRemarkList(xs) == \A i \in 1..Len(xs) : IsRemark(xs[i])

IsStyleRecommendation(rec) ==
    /\ IsRemarkList(rec.outfit_remarks)
    /\ IsRemarkList(rec.grooming_remarks)
    /\ IsRemarkList(rec.accessory_remarks)
    /\ IsRemarkList(rec.footwear_remarks)
    /\ rec.overall_style_score \in Int
    /\ rec.outfit_score \in Int
    /\ rec.grooming_score \in Int
    /\ rec.accessory_score \in Int
    /\ rec.footwear_score \in Int

\* the enrichment collaborator has been asked and generate_recommendation has ended
EnrichmentEnded == use_api /\ pc # "enriching"

\* what the enrichment collaborator handed back
EnrichmentAnswer == api_response.response.value

\* C1: whatever the enrichment collaborator does (a failed call, a timeout,
\* malformed JSON, an answer that violates the schema),
\* generate_recommendation(use_api=True) ends by returning a valid
\* StyleRecommendation; no exception leaves the aggregator.
C1_FallbackTotality ==
    EnrichmentEnded =>
        /\ pc = "done"
        /\ raised = "none"
        /\ IsStyleRecommendation(recommendation)

\* the collaborator raised, or answered with JSON that is no object, and a
\* recommendation was returned all the same
C1_Witness ==
    /\ EnrichmentEnded
    /\ pc = "done"
    /\ \/ EnrichmentAnswer.raised # "none"
       \/ EnrichmentAnswer.value.t # "object"

InRange(score) == 1 <= score /\ score <= 10

\* C2: every StyleRecommendation that generate_recommendation produces has
\* its five scores (overall, outfit, grooming, accessory, footwear) within
\* 1..10, on the rule-based path and on the enrichment path.
C2_ScoreBounds ==
    pc = "done" =>
        /\ InRange(recommendation.overall_style_score)
        /\ InRange(recommendation.outfit_score)
        /\ InRange(recommendation.grooming_score)
        /\ InRange(recommendation.accessory_score)
        /\ InRange(recommendation.footwear_score)

NoZone(remarks, zone) == \A i \in 1..Len(remarks) : remarks[i].body_zone # zone

\* C3: when footwear_analysis.visible is False, the produced recommendation
\* has no footwear remark, and no outfit, grooming or accessory remark with
\* body_zone "feet".
C3_FootwearSuppressed ==
    (pc = "done" /\ ~outfit_breakdown.footwear_analysis.visible) =>
        /\ recommendation.footwear_remarks = <<>>
        /\ NoZone(recommendation.outfit_remarks, "feet")
        /\ NoZone(recommendation.grooming_remarks, "feet")
        /\ NoZone(recommendation.accessory_remarks, "feet")

Ascending(remarks) ==
    \A i \in 1..(Len(remarks) - 1) :
        remarks[i].priority_order <= remarks[i + 1].priority_order

\* C4: each of the four remark lists of a produced recommendation is in
\* ascending priority_order, on both paths, also when a rule-based list
\* stands in for an empty or unparsable enrichment list.
C4_ListsSorted ==
    pc = "done" =>
        /\ Ascending(recommendation.outfit_remarks)
        /\ Ascending(recommendation.grooming_remarks)
        /\ Ascending(recommendation.accessory_remarks)
        /\ Ascending(recommendation.footwear_remarks)

\* a remark list of the answer that is no list, or holds an entry Remark rejects
RemarkListViolation(data) ==
    \E key \in RemarkListKeys \cap DOMAIN data :
        \/ data[key].t # "array"
        \/ \E i \in 1..Len(data[key].a) :
              RemarkFromEntry(data[key].a[i], "occasion", "full-look", "outfit").raised
                  # "none"

\* the collaborator failed: the call raised (timeout, unparsable text), or the
\* answer is not the JSON object asked for, or a remark list violates the schema
EnrichmentFailed(answer) ==
    \/ answer.raised # "none"
    \/ answer.value.t # "object"
    \/ RemarkListViolation(answer.value.o)

\* what generate_recommendation(use_api=False) returns for the same inputs
RuleBasedRecommendation ==
    _build_rule_based_recommendation(
        user_profile, grooming_profile, outfit_breakdown,
        palette_do(user_profile.skin_undertone), palette_avoid(user_profile.skin_undertone),
        rule_remarks.outfit.value, rule_remarks.footwear.value,
        rule_remarks.accessory.value, rule_remarks.grooming.value)

\* C5: on any failure of the enrichment collaborator (timeout, malformed
\* response, schema violation) generate_recommendation(use_api=True) returns
\* the same recommendation as use_api=False does for the same inputs.
C5_FailureGivesRuleBased ==
    (pc = "done" /\ use_api /\ EnrichmentFailed(EnrichmentAnswer)) =>
        recommendation = RuleBasedRecommendation

\* no bottom, ethnic-bottom or full-garment item, and footwear not visible
LowerBodyOutOfFrame(ob) ==
    /\ \A i \in 1..Len(ob.items) :
          ob.items[i].category \notin {"bottom", "ethnic-bottom", "full-garment"}
    /\ ~ob.footwear_analysis.visible

\* C6: when the lower body is out of frame, no remark list of the produced
\* recommendation holds a remark with body_zone "lower-body".
C6_LowerBodySuppressed ==
    (pc = "done" /\ LowerBodyOutOfFrame(outfit_breakdown)) =>
        /\ NoZone(recommendation.outfit_remarks, "lower-body")
        /\ NoZone(recommendation.grooming_remarks, "lower-body")
        /\ NoZone(recommendation.accessory_remarks, "lower-body")
        /\ NoZone(recommendation.footwear_remarks, "lower-body")

(***************************************************************************)
(* Properties of the synthesis passes (specification SpecSynth)            *)
(***************************************************************************)

PassNames == {"outfit", "footwear", "accessory", "grooming"}

NumberedFromOne(remarks) ==
    /\ remarks # <<>> => remarks[1].priority_order = 1
    /\ \A i \in 1..(Len(remarks) - 1) :
          remarks[i].priority_order < remarks[i + 1].priority_order

SeverityRank(severity) ==
    CASE severity = "critical" -> 3
      [] severity = "moderate" -> 2
      [] OTHER -> 1

\* C7: the remarks of each rule-based pass (outfit, footwear, accessory,
\* grooming) carry strictly increasing priority_order in the order they
\* were found, the first one 1, whatever their severity.
C7_PassNumbering ==
    \A name \in PassNames :
        ~rule_remarks[name].is_none => NumberedFromOne(rule_remarks[name].value)

\* a pass emitted a less severe remark before a more severe one
C7_Witness ==
    \E name \in PassNames :
        /\ ~rule_remarks[name].is_none
        /\ \E i \in 1..(Len(rule_remarks[name].value) - 1) :
              SeverityRank(rule_remarks[name].value[i].severity)
                  < SeverityRank(rule_remarks[name].value[i + 1].severity)

(***************************************************************************)
(* Properties of the knowledge functions (specification SpecKnow)          *)
(***************************************************************************)

\* C8: footwear_score is 5 when footwear is not visible; otherwise 2 for a
\* condition in {dirty, worn out, sole peeling}; otherwise 5 for a condition
\* in {scuffed, yellowed sole}; otherwise 8 when occasion_match and
\* outfit_match both hold, 6 when exactly one holds, 4 when neither does.
C8_FootwearScoreRule ==
    lookup.fn = "_footwear_score" =>
        lookup.out.value =
            CASE ~lookup.fw.visible -> 5
              [] lookup.fw.visible
                 /\ lookup.fw.condition \in {"dirty", "worn out", "sole peeling"} -> 2
              [] lookup.fw.visible
                 /\ lookup.fw.condition \in {"scuffed", "yellowed sole"} -> 5
              [] OTHER ->
                   IF lookup.fw.occasion_match /\ lookup.fw.outfit_match THEN 8
                   ELSE IF lookup.fw.occasion_match # lookup.fw.outfit_match THEN 6
                   ELSE 4

\* dirty footwear that matches occasion and outfit: the condition decides
C8_Witness ==
    /\ lookup.fn = "_footwear_score"
    /\ lookup.fw.visible
    /\ lookup.fw.condition = "dirty"
    /\ lookup.fw.occasion_match
    /\ lookup.fw.outfit_match
    /\ lookup.out.value = 2

MatcherNames ==
    {"watch_strap_appropriate", "belt_shoe_match", "belt_appropriate_with_garment",
     "rings_appropriate", "bag_appropriate", "indian_wear.collar_face_compatible",
     "western_wear.collar_face_compatible", "fabric_appropriate_for_occasion",
     "is_valid_fusion", "trouser_shoe_appropriate", "is_footwear_appropriate"}

HasUnrecognized(args) == \E i \in 1..Len(args) : args[i] = Unrecognized

\* C9: no fingerprint matcher raises, and with an unrecognized input on
\* either side a matcher answers "appropriate, no issue": (True, "").
C9_PermissiveDefault ==
    lookup.fn \in MatcherNames =>
        /\ lookup.out.raised = "none"
        /\ HasUnrecognized(lookup.args) => lookup.out.value = Pair(TRUE, "")

LookupNames ==
    {"trouser_break", "kurta_length_recommendation", "get_footwear_rules",
     "assess_condition", "get_fabric", "fabric_formality", "fabric_weight",
     "fabrics_for_occasion", "get_seasonal_palette", "seasonal_palette_do",
     "seasonal_palette_avoid", "seasonal_context_string", "get_archetype",
     "archetype_context_string", "get_proportion_rules", "proportion_context_string",
     "pattern_scale_recommendation", "recommended_print_scale", "score_beard_grooming"}

RaisingLookups ==
    {"get_proportion_rules", "get_seasonal_palette", "seasonal_palette_do",
     "seasonal_palette_avoid"}

\* the neutral entry a lookup documents for a key it does not know
NeutralEntry(fn, out) ==
    CASE fn \in {"get_footwear_rules", "get_fabric", "get_archetype"} -> out = Nothing
      [] fn \in {"seasonal_context_string", "archetype_context_string",
                 "proportion_context_string"} -> out = ""
      [] fn = "fabric_formality" -> out = 3
      [] fn = "fabric_weight" -> out = "medium"
      [] fn = "fabrics_for_occasion" -> out = <<>>
      [] fn = "score_beard_grooming" -> out = 5
      [] fn = "assess_condition" -> out.severity = "moderate"
      [] fn = "pattern_scale_recommendation" -> out \in {"medium_print", "small_print"}
      [] OTHER -> out # ""

Canonical(key) == Replace(Strip(Lower(key)), " ", "_")

\* two keys that differ only in letter case, surrounding whitespace, or
\* underscore versus space
SameKey(a, b) == Canonical(a) = Canonical(b)

\* C11: two keys that differ only in letter case, surrounding whitespace or
\* underscore versus space give the same result: whatever get_footwear_rules,
\* assess_condition and _footwear_score answered for a key, they answer for
\* every other spelling of that key.
C11_NormalizedKeys ==
    /\ lookup.fn = "get_footwear_rules" =>
           \A occ \in KnowOccasions :
               SameKey(occ, lookup.args[1]) => get_footwear_rules(occ) = lookup.out.value
    /\ lookup.fn = "assess_condition" =>
           \A condition \in KnowConditions :
               SameKey(condition, lookup.args[1]) =>
                   assess_condition(condition) = lookup.out.value
    /\ lookup.fn = "_footwear_score" =>
           \A condition \in KnowConditions :
               SameKey(condition, lookup.fw.condition) =>
                   FootwearScore([lookup.fw EXCEPT !.condition = condition])
                       = lookup.out.value

\* C12: whatever a fingerprint matcher is given, the reason it returns is
\* empty exactly when the is_appropriate flag it returns is True.
C12_ReasonIffInappropriate ==
    lookup.fn \in MatcherNames =>
        (lookup.out.value.reason = "" <=> lookup.out.value.ok)

\* bag_appropriate turned a bag down and said why
C12_Witness ==
    /\ lookup.fn = "bag_appropriate"
    /\ ~lookup.out.value.ok
    /\ lookup.out.value.reason # ""

\* the three heights of the proportion matrix
MatrixHeights == {"tall", "average", "petite"}

\* the lookup was asked for one of the 15 height x body-shape combinations
MatrixCombination ==
    /\ lookup.fn = "get_proportion_rules"
    /\ lookup.args[1] \in MatrixHeights
    /\ lookup.args[2] \in Range(BodyShape)

\* the tables other than the beard rules: a record with something to do and
\* something to avoid for every enum value and every matrix combination
OtherTablesComplete ==
    /\ lookup.fn \in {"get_palette", "get_rules"} =>
           lookup.out.value.do # <<>> /\ lookup.out.value.avoid # <<>>
    /\ lookup.fn = "get_haircut_rules" =>
           lookup.out.value.recommended # <<>> /\ lookup.out.value.avoid # <<>>
    /\ lookup.fn = "get_eyebrow_recommendation" => lookup.out.value # ""
    /\ MatrixCombination =>
           /\ lookup.out.raised = "none"
           /\ lookup.out.value.do # <<>>
           /\ lookup.out.value.avoid # <<>>

\* C13 as stated: for every SkinUndertone, BodyShape and FaceShape and each
\* of the 15 height x body-shape combinations the lookup returns a record
\* with at least one "do" entry and at least one "avoid" entry.
C13_TablesComplete ==
    /\ OtherTablesComplete
    /\ lookup.fn = "get_beard_rules" =>
           lookup.out.value.recommended # <<>> /\ lookup.out.value.avoid # <<>>

\* C13, amended: as stated, except that the beard rules of the oval face
\* recommend styles and list nothing to avoid.
C13_TablesCompleteButOvalBeard ==
    /\ OtherTablesComplete
    /\ lookup.fn = "get_beard_rules" =>
           /\ lookup.out.value.recommended # <<>>
           /\ lookup.out.value.avoid = <<>> <=> lookup.args[1] = "oval"

\* the beard rules of the oval face were looked up: styles to wear, none to avoid
C13_Witness ==
    /\ lookup.fn = "get_beard_rules"
    /\ lookup.args[1] = "oval"
    /\ lookup.out.value.recommended # <<>>
    /\ lookup.out.value.avoid = <<>>

Severities == {"critical", "moderate", "minor"}

HasKnownSeverity(remarks) ==
    \A i \in 1..Len(remarks) : remarks[i].severity \in Severities

\* C14: every remark in every remark list of a produced recommendation has
\* severity critical, moderate or minor, whether a rule-based pass emitted
\* it or the enrichment answer carried it.
C14_SeverityVocabulary ==
    pc = "done" =>
        /\ HasKnownSeverity(recommendation.outfit_remarks)
        /\ HasKnownSeverity(recommendation.grooming_remarks)
        /\ HasKnownSeverity(recommendation.accessory_remarks)
        /\ HasKnownSeverity(recommendation.footwear_remarks)

InGenerateRecommendation == pc \in {"recommendation", "enriching"}

RefreshedExisting ==
    /\ lookup.fn = "run_onboarding"
    /\ lookup.refresh
    /\ lookup.existing.exists
    /\ lookup.existing.readable
    /\ lookup.out.raised = "none"

\* C17: a refresh of an existing profile persists a profile whose
\* profile_version is the stored profile's version plus one, in sequential
\* mode and in folder mode.
C17_RefreshIncrementsVersion ==
    RefreshedExisting =>
        profile_store.profile.profile_version
            = lookup.existing.profile.profile_version + 1

\* profile construction was given fewer than the minimum of photos:
\* build_profile fewer analyses, run_onboarding fewer paths (sequential mode)
\* or a folder with fewer usable photos (folder mode)
FewerThanMinimum ==
    \/ lookup.fn = "build_profile" /\ Len(lookup.photos) < MIN_PHOTOS
    \/ /\ lookup.fn = "run_onboarding"
       /\ IF lookup.folder_mode
          THEN lookup.folder_path = "looks" /\ Len(Usable(lookup.photos)) < MIN_PHOTOS
          ELSE Len(lookup.photos) < MIN_PHOTOS

\* C18: profile construction from fewer than 3 photos yields no profile and
\* reaches the caller as InsufficientPhotosError, the insufficient-input
\* condition, not as a generic failure.
C18_InsufficientPhotosSurfaced ==
    FewerThanMinimum => lookup.out.raised = "InsufficientPhotosError"

(***************************************************************************)
(* Properties of the outfit pass (specification SpecSynth)                 *)
(***************************************************************************)

\* the remarks of one category, in the order the pass emitted them
OfCategory(remarks, category) == SelectSeq(remarks, LAMBDA r : r.category = category)

OneCriticalOrNone(colors, clash) ==
    IF clash THEN Len(colors) = 1 /\ colors[1].severity = "critical"
    ELSE colors = <<>>

\* C19: the rule-based outfit pass emits exactly one COLOR remark, of
\* severity critical, when color_clash_detected is true, and no COLOR remark
\* when it is false.
C19_ColorClashRemark ==
    ~rule_remarks.outfit.is_none =>
        OneCriticalOrNone(OfCategory(rule_remarks.outfit.value, "color"),
                          outfit_breakdown.color_clash_detected)

\* the outfit pass ran over a breakdown with a colour clash and emitted
\* other remarks besides the colour one
C19_Witness ==
    /\ ~rule_remarks.outfit.is_none
    /\ outfit_breakdown.color_clash_detected
    /\ Len(rule_remarks.outfit.value) >= 3
    /\ OfCategory(rule_remarks.outfit.value, "color") # <<>>

\* what the layering check finds for the breakdown the pass ran over
IssuesFound ==
    LayerIssues(is_western_occasion(occasion),
                SelectSeq(outfit_breakdown.items,
                          LAMBDA g : g.category \in {"outerwear", "layer"}),
                SelectSeq(outfit_breakdown.items,
                          LAMBDA g : g.category \in {"top", "inner"}))

CarriesFirst(layering, issues) ==
    /\ Len(layering) <= 1
    /\ Len(issues) >= 2 => (Len(layering) = 1 /\ layering[1].issue = issues[1])

\* C20: the rule-based outfit pass emits at most one LAYERING remark per
\* analysis, and when the layering check finds several issues the remark
\* carries the first of them.
C20_OneLayeringRemark ==
    ~rule_remarks.outfit.is_none =>
        CarriesFirst(OfCategory(rule_remarks.outfit.value, "layering"), IssuesFound)

\* the outfit pass ran over a breakdown whose layering check finds two
\* different issues
C20_Witness ==
    /\ ~rule_remarks.outfit.is_none
    /\ Len(IssuesFound) = 2
    /\ IssuesFound[1] # IssuesFound[2]
    /\ OfCategory(rule_remarks.outfit.value, "layering") # <<>>

(***************************************************************************)
(* Properties of the layering and belt matchers (specification SpecKnow)   *)
(***************************************************************************)

\* light < medium < heavy
Lighter(a, b) == <<a, b>> \in {<<"light", "medium">>, <<"light", "heavy">>,
                                <<"medium", "heavy">>}

\* slim = fitted < regular < relaxed < oversized
Slimmer(a, b) ==
    <<a, b>> \in ({"slim", "fitted"} \X {"regular", "relaxed", "oversized"})
                 \cup ({"regular"} \X {"relaxed", "oversized"})
                 \cup {<<"relaxed", "oversized">>}

\* validate_layering was called with weights and fits of its vocabulary
LayeringCalled ==
    /\ lookup.fn = "validate_layering"
    /\ {lookup.args[1], lookup.args[2]} \subseteq {"light", "medium", "heavy"}
    /\ {lookup.args[3], lookup.args[4]}
           \subseteq {"slim", "fitted", "regular", "relaxed", "oversized"}

Mentions(issues, word) == SelectSeq(issues, LAMBDA i : Contains(word, i))

ViolationsReported(issues, weight, fit) ==
    /\ Len(Mentions(issues, "lighter")) = (IF weight THEN 1 ELSE 0)
    /\ Len(Mentions(issues, "slimmer")) = (IF fit THEN 1 ELSE 0)
    /\ Len(issues) = (IF weight THEN 1 ELSE 0) + (IF fit THEN 1 ELSE 0)

\* C21: validate_layering reports a weight violation exactly when the outer
\* layer is lighter than the base layer and a fit violation exactly when the
\* outer layer's fit is slimmer than the base layer's, each independently of
\* the other: both when both hold, an empty result when neither holds.
C21_LayeringViolations ==
    LayeringCalled =>
        ViolationsReported(lookup.out.value,
                           Lighter(lookup.args[2], lookup.args[1]),
                           Slimmer(lookup.args[4], lookup.args[3]))

\* a lighter and slimmer outer layer: both violations hold
C21_Witness ==
    /\ LayeringCalled
    /\ Lighter(lookup.args[2], lookup.args[1])
    /\ Slimmer(lookup.args[4], lookup.args[3])
    /\ Len(lookup.out.value) = 2

\* the colour names a shade of the family
InFamily(color, family) == \E c \in family : Contains(c, Strip(Lower(color)))

BlackFamily == {"black", "dark black", "charcoal"}

BrownFamily == {"brown", "tan", "cognac", "dark brown", "light brown", "caramel",
                "chestnut"}

MismatchNaming(out, family_name) ==
    /\ out.ok = FALSE
    /\ out.reason # ""
    /\ Contains(family_name, Lower(out.reason))

BeltShoeByFamily(belt, shoe, out) ==
    /\ (InFamily(belt, BlackFamily) /\ ~InFamily(shoe, BlackFamily))
           => MismatchNaming(out, "black")
    /\ (InFamily(belt, BrownFamily) /\ ~InFamily(shoe, BrownFamily))
           => MismatchNaming(out, "brown")
    /\ (\E family \in {BlackFamily, BrownFamily} :
            InFamily(belt, family) /\ InFamily(shoe, family))
           => out = Pair(TRUE, "")

\* C22: the belt/shoe matcher works by colour family, not exact equality: a
\* black-family belt with a shoe outside the black family, or a brown-family
\* belt with a shoe outside the brown family, returns False with a non-empty
\* reason naming the belt's family; a belt and a shoe of the same family
\* return (True, "").
C22_BeltShoeFamilies ==
    lookup.fn = "belt_shoe_match" =>
        BeltShoeByFamily(lookup.args[1], lookup.args[2], lookup.out.value)

\* two different shades of one family were matched
C22_Witness ==
    /\ lookup.fn = "belt_shoe_match"
    /\ InFamily(lookup.args[1], BrownFamily)
    /\ InFamily(lookup.args[2], BrownFamily)
    /\ Strip(Lower(lookup.args[1])) # Strip(Lower(lookup.args[2]))
    /\ lookup.out.value = Pair(TRUE, "")

\* _majority_vote has returned from a non-empty bag of observations
VotedOnSome == lookup.fn = "_majority_vote" /\ lookup.args[1] # <<>>

MaximalFrequency(values, winner) ==
    /\ InSeq(winner, values)
    /\ \A i \in 1..Len(values) : CountOf(values, values[i]) <= CountOf(values, winner)

TwiceOff(hundredths, freq, total) ==
    IF hundredths * total >= 100 * freq
    THEN 2 * (hundredths * total - 100 * freq)
    ELSE 2 * (100 * freq - hundredths * total)

VisionFailed == analysis_run.n > 0 /\ analysis_run.vision # "none"

\* C24: if vision analysis fails for any reason, run_analysis raises
\* StyleAgentError: no other exception type escapes and no partial
\* AnalysisResult is returned.
C24_VisionFailureRaises ==
    VisionFailed =>
        /\ pc = "run_raised"
        /\ raised = "StyleAgentError"
        /\ analysis_run.result.is_none

\* the vision collaborator's client raised an error that is none of the
\* agent's own
C24_Witness ==
    /\ VisionFailed
    /\ analysis_run.vision = "RuntimeError"
    /\ pc = "run_raised"

\* caricature_agent.generate was called and raised, or gave no image (an
\* empty path, or the path of the original photo)
NoImage(generated) ==
    IF generated.raised # "none" THEN TRUE ELSE generated.value \in {"", ImagePath}

CaricatureFailed ==
    /\ analysis_run.n > 0
    /\ ~analysis_run.caricature.is_none
    /\ NoImage(analysis_run.caricature.value)

MentionsCaricature(warnings) ==
    \E i \in 1..Len(warnings) : Contains("Caricature", warnings[i])

CompleteWithWarning(result) ==
    /\ IsStyleRecommendation(result.recommendation)
    /\ result.caricature_path = ""
    /\ MentionsCaricature(result.warnings)

\* C25: if caricature generation fails (raises or yields no image),
\* run_analysis still returns a complete recommendation, with an empty
\* caricature path and a warning recorded in the result.
C25_CaricatureFailureNotFatal ==
    CaricatureFailed =>
        /\ pc \in {"run_recommendation", "run_finish", "run_returned"}
        /\ raised = "none"
        /\ pc = "run_returned" => (/\ ~analysis_run.result.is_none
                                  /\ CompleteWithWarning(analysis_run.result.value))

\* the caricature collaborator raised and run_analysis has returned
C25_Witness ==
    /\ CaricatureFailed
    /\ analysis_run.caricature.value.raised # "none"
    /\ pc = "run_returned"
    /\ ~analysis_run.result.is_none

\* generate_grooming_profile raised in the current run_analysis call
GroomingFailed == analysis_run.n > 0 /\ analysis_run.grooming # "none"

\* C26: if grooming-profile generation raises, run_analysis does not fail:
\* it continues with a minimal default GroomingProfile (grooming_score 5, no
\* remarks) and still produces a recommendation.
C26_GroomingFailureNotFatal ==
    GroomingFailed =>
        /\ pc # "run_raised"
        /\ grooming_profile.grooming_score = 5
        /\ grooming_profile.grooming_remarks = <<>>

IsPrefix(xs, ys) == Len(xs) <= Len(ys) /\ SubSeq(ys, 1, Len(xs)) = xs

\* timestamps never decrease from an entry to the next
OldestFirst(entries) ==
    \A i \in 1..(Len(entries) - 1) :
        entries[i].o.timestamp.n <= entries[i + 1].o.timestamp.n

\* run_analysis returns in this step
Returning == pc = "run_finish" /\ pc' = "run_returned"

\* C30 (as stated): the history log is append-only: each completed
\* run_analysis adds exactly one entry at the end, and no sequence of analyses
\* modifies, reorders or removes an earlier entry (load_history returns the
\* entries oldest first).
C30_HistoryAppendOnly ==
    [][/\ IsPrefix(history, history')
       /\ Len(history') = Len(history) + (IF Returning THEN 1 ELSE 0)
       /\ OldestFirst(load_history(history', 0))]_vars

\* C30 (amended): the history log is append-only: a completed run_analysis
\* adds one entry at the end when the log can be written and none when it
\* cannot, nothing else adds an entry, and no sequence of analyses modifies,
\* reorders or removes an earlier entry (load_history returns the entries
\* oldest first).
C30_HistoryAppendOnlyWhenWritten ==
    [][/\ IsPrefix(history, history')
       /\ Len(history') = Len(history)
              + (IF Returning /\ analysis_run'.history_written THEN 1 ELSE 0)
       /\ OldestFirst(load_history(history', 0))]_vars

\* two analyses have returned and the log holds an entry of each
C30_Witness ==
    /\ pc = "run_returned"
    /\ analysis_run.n = 2
    /\ Len(history) = 2
    /\ history[1] # history[2]

(***************************************************************************)
(* Further properties of onboarding (specification SpecOnboard)            *)
(***************************************************************************)

\* the profile_version of the stored profile; 0 when there is no profile
\* file or it cannot be read
StoredVersion(store) ==
    IF store.exists /\ store.readable THEN store.profile.profile_version ELSE 0

\* C27: across any sequence of run_onboarding calls (sequential or folder
\* mode, refresh true or false, existing profile readable or not), the
\* profile_version of the stored profile never decreases.
C27_VersionNeverDecreases ==
    [][StoredVersion(profile_store') >= StoredVersion(profile_store)]_vars

(***************************************************************************)
(* Properties of the accessory pass (specification SpecSynth)              *)
(***************************************************************************)

\* the accessory type a suggestion of suggest_missing_accessories stands for:
\* the pocket square suggestion is made for a missing pocket square, all
\* others for a missing watch
SuggestedType(suggestion) ==
    IF Contains("pocket square", Lower(suggestion)) THEN "pocket_square" ELSE "watch"

MissingAccessoryRemarks(remarks) ==
    SelectSeq(remarks, LAMBDA r : r.element = "missing accessory")

NoneDetected(missing, detected_types) ==
    \A i \in 1..Len(missing) : ~InSeq(SuggestedType(missing[i].fix), detected_types)

\* C28: the accessory pass never emits a "missing accessory" remark for an
\* accessory type that is present in items_detected, for every AccessoryType
\* value, multi-word ones such as pocket_square included.
C28_NoMissingRemarkForDetected ==
    ~rule_remarks.accessory.is_none =>
        NoneDetected(MissingAccessoryRemarks(rule_remarks.accessory.value),
                     DetectedTypes(outfit_breakdown.accessory_analysis.items_detected))

\* ---------------------------------------------------------------------------
\* services/anthropic_service.py: call_vision and call_text under their
\* tenacity @retry decorator (specification SpecRetry)
\* ---------------------------------------------------------------------------

\* stop_after_attempt(3)
MAX_ATTEMPTS == 3

\* the exception types named by retry_if_exception_type(...)
TransientErrors == {"APIConnectionError", "RateLimitError", "APITimeoutError"}

\* retry=retry_if_exception_type((...)), mutated: every exception is retried
RetryOnAnyException(outcome) == outcome.raised # "none"

\* retry=retry_if_exception_type((APIConnectionError, RateLimitError,
\* APITimeoutError)): the attempt is repeated only when it raised one of these
retry_if_exception_type(outcome) == outcome.raised \in TransientErrors

\* stop=stop_after_attempt(3)
stop_after_attempt(attempt_number) == attempt_number >= MAX_ATTEMPTS

RECURSIVE Pow2(_)
Pow2(n) == IF n = 0 THEN 1 ELSE 2 * Pow2(n - 1)

Max2(a, b) == IF a >= b THEN a ELSE b

Min2(a, b) == IF a <= b THEN a ELSE b

\* wait=wait_exponential(multiplier=2, min=2, max=8): seconds slept after the
\* attempt numbered attempt_number
wait_exponential(attempt_number) == Max2(2, Min2(2 * Pow2(attempt_number - 1), 8))

\* the body of call_vision / call_text: _get_client() raises EnvironmentError
\* without an API key, client.messages.create may raise, and
\* message.content[0].text raises IndexError on an empty content list
CallBody(api_key_set, created) == IF ~api_key_set THEN Raise("EnvironmentError") ELSE IF created.raised # "none" THEN created ELSE IF created.value = <<>> THEN Raise("IndexError") ELSE Ret(created.value[1])

\* what client.messages.create can do on one attempt
CreateOutcomes == {Ret(<<"text">>), Ret(<<"{}">>), Ret(<<>>), Raise("APIConnectionError"), Raise("RateLimitError"), Raise("APITimeoutError"), Raise("BadRequestError"), Raise("InternalServerError")}

RetriedFunctions == {"call_vision", "call_text"}

\* a call in progress: the outcome of every attempt so far, the seconds slept
\* between attempts, and what the caller finally gets
NewCall(fn) == [fn |-> fn, attempts |-> <<>>, slept |-> <<>>, out |-> Nothing]

InitRetry ==
    /\ pc = "retry_idle"
    /\ user_profile = None
    /\ occasion = None
    /\ outfit_breakdown = None
    /\ grooming_profile = None
    /\ rule_remarks = None
    /\ api_response = None
    /\ recommendation = None
    /\ use_api = TRUE
    /\ raised = "none"
    /\ lookup = NewCall("call_vision")
    /\ profile_store = NoStore
    /\ analysis_run = NoAnalysis
    /\ history = <<>>

unchanged_by_retry == <<user_profile, occasion, outfit_breakdown, grooming_profile, rule_remarks, api_response, recommendation, use_api, profile_store, analysis_run, history>>

\* a caller invokes call_vision or call_text
CallStarts ==
    /\ pc \in {"retry_idle", "retry_done"}
    /\ \E fn \in RetriedFunctions :
        lookup' = NewCall(fn)
    /\ pc' = "retry_attempt"
    /\ raised' = "none"
    /\ UNCHANGED unchanged_by_retry

\* what the decorator does with the outcome of the attempt just made: hand it
\* to the caller (a return; an exception that is not retried; an exception on
\* the last allowed attempt, re-raised because reraise=True), or go to sleep
AfterAttempt(call, outcome) == IF outcome.raised = "none" \/ ~retry_if_exception_type(outcome) \/ stop_after_attempt(Len(call.attempts) + 1) THEN [call EXCEPT !.attempts = Append(@, outcome), !.out = Some(outcome)] ELSE [call EXCEPT !.attempts = Append(@, outcome)]

\* one execution of the decorated body, followed by the decorator's decision
Attempt ==
    /\ pc = "retry_attempt"
    /\ \E api_key_set \in BOOLEAN, created \in CreateOutcomes :
        \E next \in {AfterAttempt(lookup, CallBody(api_key_set, created))} :
            /\ lookup' = next
            /\ pc' = IF next.out.is_none THEN "retry_sleep" ELSE "retry_done"
            /\ raised' = IF next.out.is_none THEN "none" ELSE next.out.value.raised
    /\ UNCHANGED unchanged_by_retry

\* before_sleep logs, then the decorator sleeps wait_exponential seconds
Sleep ==
    /\ pc = "retry_sleep"
    /\ lookup' = [lookup EXCEPT !.slept = Append(@, wait_exponential(Len(lookup.attempts)))]
    /\ pc' = "retry_attempt"
    /\ UNCHANGED <<raised, unchanged_by_retry>>

NextRetry ==
    \/ CallStarts
    \/ Attempt
    \/ Sleep

SpecRetry == InitRetry /\ [][NextRetry]_vars

\* ---------------------------------------------------------------------------
\* Properties of the retried API calls (specification SpecRetry)
\* ---------------------------------------------------------------------------

InRetry == pc \in {"retry_attempt", "retry_sleep", "retry_done"}

CallDone == pc = "retry_done"

Transient(outcome) == outcome.raised \in TransientErrors

Failed(outcome) == outcome.raised # "none"

LastAttempt(call) == call.attempts[Len(call.attempts)]

\* C29: each call_vision / call_text invocation makes at most 3 attempts; an
\* attempt is followed by another one only when it raised a transient error
\* (connection, rate-limit or timeout); an attempt that raises any other error
\* ends the call with that error (so such an error on the first attempt leaves
\* exactly one attempt); and when the third attempt fails the caller gets the
\* error of that third attempt.
C29_BoundedRetry ==
    InRetry =>
        /\ Len(lookup.attempts) <= 3
        /\ \A i \in 1..(Len(lookup.attempts) - 1) : Transient(lookup.attempts[i])
        /\ pc = "retry_sleep" => Transient(LastAttempt(lookup)) /\ Len(lookup.attempts) < 3
        /\ CallDone =>
            /\ Len(lookup.attempts) >= 1
            /\ lookup.out = Some(LastAttempt(lookup))
            /\ raised = LastAttempt(lookup).raised
            /\ (Failed(lookup.attempts[1]) /\ ~Transient(lookup.attempts[1])) => Len(lookup.attempts) = 1
            /\ (Failed(LastAttempt(lookup)) /\ Transient(LastAttempt(lookup))) => Len(lookup.attempts) = 3

\* a call whose three attempts all failed with transient errors, the last one
\* different from the earlier ones, and whose caller got the third error
C29_Witness ==
    /\ CallDone
    /\ Len(lookup.attempts) = 3
    /\ lookup.attempts[1] = Raise("APIConnectionError")
    /\ lookup.attempts[2] = Raise("APITimeoutError")
    /\ lookup.attempts[3] = Raise("RateLimitError")
    /\ raised = "RateLimitError"
    /\ lookup.slept = <<2, 4>>

====
